---- MODULE Spec2Model ----
(***************************************************************************)
(* Bookvault: the SQLite response cache (Bookvault/cache.py), the retry     *)
(* decorator (Bookvault/apis/openai_engine.py) and the cached, retrying    *)
(* search of Google Books (Bookvault/apis/google_books.py).                *)
(***************************************************************************)
EXTENDS Integers, Sequences, FiniteSets, TLC

VARIABLES
    phase,          \* "closed": no SQLiteCache object; "open": constructed
    max_age_hours,  \* SQLiteCache.max_age_hours
    rows,           \* the rows of table cache: [key, value, timestamp]
    now,            \* time.time(), in seconds
    ret,            \* the outcome of the last call made on the cache from outside
    sets,           \* per key, the set calls since the key's row was last removed
    rcfg,           \* retry_on_failure's arguments (max_retries, delay, backoff)
    rpc,            \* where the wrapper of retry_on_failure stands
    attempt,        \* wrapper: the loop variable attempt
    current_delay,  \* wrapper: current_delay
    last_exception, \* wrapper: last_exception
    calls,          \* the invocations of the wrapped function, oldest first
    waits,          \* the arguments of time.sleep, oldest first
    rres,           \* what the wrapper handed to its caller
    spc,            \* where GoogleBooksAPI.search stands
    sargs,          \* search: query, max_results, lang, start_index
    MAX_RETRIES,    \* Config.MAX_RETRIES as the running search reads it
    retry_count,    \* search: retry_count
    requests,       \* the calls of requests.get made by the running search
    sleeps,         \* the calls of time.sleep made by the running search
    slast,          \* how the last requests.get of the running search ended
    sres,           \* what search handed to its caller
    fetched,        \* per request, the result last computed and written to the cache
    scache,         \* what the cache did for the running search
    built,          \* the cache keys and request parameters built so far
    lcfg,           \* RateLimiter: max_requests and time_window
    self_requests,  \* RateLimiter.requests: per identifier, the recorded times
    ltime,          \* time.time() as the rate limiter reads it, in seconds
    lret,           \* what the last call of is_allowed returned
    lallowed,       \* per identifier, the times of all the calls allowed so far
    lthreads,       \* per thread, where its call of is_allowed stands
    lru,            \* the lru_cache of get_recommendations, least recent first
    ecall,          \* the last call of a method of AIRecommendationEngine
    svc,            \* the last call of BookVaultService.search_books
    cthreads,       \* per caller sharing one SQLiteCache, where its call stands
    cwrites,        \* per value, whether a set of it ran its INSERT and returned
    cgot            \* what the last get of a caller sharing the cache returned

cacheVars == <<phase, max_age_hours, rows, now, ret, sets>>
retryVars == <<rcfg, rpc, attempt, current_delay, last_exception, calls, waits, rres>>
searchVars == <<spc, sargs, MAX_RETRIES, retry_count, requests, sleeps, slast, sres,
               fetched, scache>>
keyVars == <<built>>
limiterVars == <<lcfg, self_requests, ltime, lret, lallowed, lthreads>>
engineVars == <<lru, ecall>>
serviceVars == <<svc>>
concVars == <<cthreads, cwrites, cgot>>
restVars == <<limiterVars, engineVars, serviceVars, concVars>>
vars == <<phase, max_age_hours, rows, now, ret, sets,
          rcfg, rpc, attempt, current_delay, last_exception, calls, waits, rres,
          spc, sargs, MAX_RETRIES, retry_count, requests, sleeps, slast, sres,
          fetched, scache, built,
          lcfg, self_requests, ltime, lret, lallowed, lthreads,
          lru, ecall, svc, cthreads, cwrites, cgot>>

----------------------------------------------------------------------------
(* Bounds of the model *)

MaxTicks == 2        \* the clock stops after this many hours
MaxAgeHours == 1     \* max_age_hours ranges over 1..MaxAgeHours
MaxInt == 1          \* integers inside cached values range over 0..MaxInt
MaxRetries == 3      \* max_retries ranges over -1..MaxRetries

SecondsPerHour == 3600

Keys == {"k1", "k2"}

----------------------------------------------------------------------------
(* Python values, as far as json.dumps tells them apart *)

PyNone == [ty |-> "NoneType"]
PyInt(n) == [ty |-> "int", n |-> n]
PyStr(s) == [ty |-> "str", s |-> s]
PyList(items) == [ty |-> "list", items |-> items]
PyTuple(items) == [ty |-> "tuple", items |-> items]
PyDict(pairs) == [ty |-> "dict", pairs |-> pairs]
PyBool(b) == [ty |-> "bool", b |-> b]

JSONDecodeError == [ty |-> "JSONDecodeError"]

IntUniverse == 0..MaxInt
\* the strs inside the books and the texts of the recommendation engine
EngineStrings ==
    {"title", "cover_url", "Dune", "dune", "Emma", "http://c", "",
     "is_nl_query", "search_terms", "books", "error", "a quote", "a longer quote",
     "Emma by Austen", "RateLimitError", "http://c/cover.jpg"}
StrUniverse == {"a"} \cup {ToString(n) : n \in IntUniverse} \cup EngineStrings

\* The values handed to set: an empty result list, a list of book dicts and
\* a dict with an int for key and a tuple for value.
Values ==
    { PyList(<<>>),
      PyList(<<PyDict(<< <<PyStr("a"), PyInt(1)>> >>)>>),
      PyDict(<< <<PyInt(1), PyTuple(<<PyInt(1)>>)>> >>) }

----------------------------------------------------------------------------
(* json.dumps and json.loads; a JSON text is the sequence of its tokens *)

Quote(s) == "\"" \o s \o "\""

NumTokens == {ToString(n) : n \in IntUniverse}
StrTokens == {Quote(s) : s \in StrUniverse}

IntOf(tok) == CHOOSE n \in IntUniverse : ToString(n) = tok
Unquoted == [tok \in StrTokens |-> CHOOSE s \in StrUniverse : Quote(s) = tok]
Unquote(tok) == Unquoted[tok]

\* json.dumps turns a dict key that is not a str into one
KeyToken(k) ==
    CASE k.ty = "str" -> Quote(k.s)
      [] k.ty = "int" -> Quote(ToString(k.n))
      [] k.ty = "NoneType" -> Quote("null")

RECURSIVE dumps(_), dumpsItems(_), dumpsPairs(_)

dumpsItems(items) ==
    IF items = <<>> THEN <<>>
    ELSE IF Len(items) = 1 THEN dumps(items[1])
    ELSE dumps(items[1]) \o <<",">> \o dumpsItems(Tail(items))

dumpsPairs(pairs) ==
    IF pairs = <<>> THEN <<>>
    ELSE LET one == <<KeyToken(pairs[1][1]), ":">> \o dumps(pairs[1][2])
         IN IF Len(pairs) = 1 THEN one
            ELSE one \o <<",">> \o dumpsPairs(Tail(pairs))

dumps(v) ==
    CASE v.ty = "NoneType" -> <<"null">>
      [] v.ty = "int" -> <<ToString(v.n)>>
      [] v.ty = "bool" -> IF v.b THEN <<"true">> ELSE <<"false">>
      [] v.ty = "str" -> <<Quote(v.s)>>
      [] v.ty \in {"list", "tuple"} -> <<"[">> \o dumpsItems(v.items) \o <<"]">>
      [] v.ty = "dict" -> <<"{">> \o dumpsPairs(v.pairs) \o <<"}">>

ParseFail == [ok |-> FALSE, val |-> JSONDecodeError, next |-> 0]
Parsed(v, n) == [ok |-> TRUE, val |-> v, next |-> n]

\* a dict keeps the last value of a repeated key, at the key's first place
RECURSIVE PutPair(_, _, _)
PutPair(pairs, k, v) ==
    IF pairs = <<>> THEN << <<k, v>> >>
    ELSE IF pairs[1][1] = k THEN << <<k, v>> >> \o Tail(pairs)
    ELSE <<pairs[1]>> \o PutPair(Tail(pairs), k, v)

RECURSIVE ParseValue(_, _), ParseItems(_, _, _), ParsePairs(_, _, _)

ParseValue(t, i) ==
    IF i > Len(t) THEN ParseFail
    ELSE LET tok == t[i] IN
         CASE tok = "null" -> Parsed(PyNone, i + 1)
           [] tok = "true" -> Parsed(PyBool(TRUE), i + 1)
           [] tok = "false" -> Parsed(PyBool(FALSE), i + 1)
           [] tok \in NumTokens -> Parsed(PyInt(IntOf(tok)), i + 1)
           [] tok \in StrTokens -> Parsed(PyStr(Unquote(tok)), i + 1)
           [] tok = "[" ->
                IF i + 1 <= Len(t) /\ t[i + 1] = "]"
                THEN Parsed(PyList(<<>>), i + 2)
                ELSE ParseItems(t, i + 1, <<>>)
           [] tok = "{" ->
                IF i + 1 <= Len(t) /\ t[i + 1] = "}"
                THEN Parsed(PyDict(<<>>), i + 2)
                ELSE ParsePairs(t, i + 1, <<>>)
           [] OTHER -> ParseFail

ParseItems(t, i, acc) ==
    LET r == ParseValue(t, i) IN
    IF ~r.ok \/ r.next > Len(t) THEN ParseFail
    ELSE IF t[r.next] = "," THEN ParseItems(t, r.next + 1, Append(acc, r.val))
    ELSE IF t[r.next] = "]" THEN Parsed(PyList(Append(acc, r.val)), r.next + 1)
    ELSE ParseFail

ParsePairs(t, i, acc) ==
    IF i + 1 > Len(t) \/ t[i] \notin StrTokens \/ t[i + 1] # ":" THEN ParseFail
    ELSE LET k == PyStr(Unquote(t[i]))
             r == ParseValue(t, i + 2)
         IN IF ~r.ok \/ r.next > Len(t) THEN ParseFail
            ELSE IF t[r.next] = "," THEN ParsePairs(t, r.next + 1, PutPair(acc, k, r.val))
            ELSE IF t[r.next] = "}" THEN Parsed(PyDict(PutPair(acc, k, r.val)), r.next + 1)
            ELSE ParseFail

\* json.loads: the value, or JSONDecodeError for a text that is not JSON
loads(t) ==
    LET r == ParseValue(t, 1) IN
    IF r.ok /\ r.next = Len(t) + 1 THEN r.val ELSE JSONDecodeError

\* LENGTH(value): the characters of the text json.dumps writes, which puts a
\* blank after every "," and ":"
RECURSIVE TextLength(_)
TextLength(t) ==
    IF t = <<>> THEN 0
    ELSE Len(t[1]) + (IF t[1] \in {",", ":"} THEN 1 ELSE 0) + TextLength(Tail(t))

----------------------------------------------------------------------------
(* SQLiteCache *)

\* What is remembered of the set calls on a key: the value of the last call
\* (v), whether its INSERT ran (stored), whether that INSERT took the place of
\* an earlier set's other value (replaced), and the value and the time of the
\* last call whose INSERT ran (cur and curAt, when hasCur).
NoSet ==
    [called |-> FALSE, v |-> PyNone, stored |-> FALSE, replaced |-> FALSE,
     cur |-> PyNone, curAt |-> 0, hasCur |-> FALSE]
SetCall(v, stored, before, t) ==
    [called |-> TRUE, v |-> v, stored |-> stored,
     replaced |-> stored /\ before.hasCur /\ before.cur # v,
     cur |-> IF stored THEN v ELSE before.cur,
     curAt |-> IF stored THEN t ELSE before.curAt,
     hasCur |-> stored \/ before.hasCur]

Row(k, text, ts) == [key |-> k, value |-> text, timestamp |-> ts]

\* The outcome of a call, as its caller sees it: what it returned or that it
\* raised. Two notes are kept with it: for get, the key and whether the
\* SELECT raised (fault); for clear_old_entries, how many rows the DELETE
\* took away (removed).
Returned(op, k, v, fault) ==
    [op |-> op, key |-> k, outcome |-> "returned", val |-> v, fault |-> fault,
     removed |-> 0]
Raised(op, k) ==
    [op |-> op, key |-> k, outcome |-> "raised", val |-> [ty |-> "sqlite3.Error"],
     fault |-> TRUE, removed |-> 0]
NoCall ==
    [op |-> "none", key |-> "", outcome |-> "none", val |-> PyNone, fault |-> FALSE,
     removed |-> 0]

\* a text that json.loads rejects: a file written by something else, or cut short
CorruptText == <<"[", "1">>

\* the database file found on disk by the first constructor
SeedTables ==
    { {},
      {Row("k1", CorruptText, 0)},
      {Row("k1", dumps(PyList(<<>>)), 0), Row("k2", CorruptText, 0)} }

\* SELECT value FROM cache WHERE key=? LIMIT 1
SelectValue(rs, k) == {r \in rs : r.key = k}

\* INSERT OR REPLACE INTO cache: key is the PRIMARY KEY
InsertOnly(rs, row) == rs \cup {row}
InsertOrIgnore(rs, row) == IF \E r \in rs : r.key = row.key THEN rs ELSE rs \cup {row}
InsertOrReplace(rs, row) == {r \in rs : r.key # row.key} \cup {row}

cutoff_time(t, hours) == t - (hours * SecondsPerHour)

\* SELECT COUNT(*) FROM cache WHERE timestamp < ?
SelectCountOldInclusive(rs, cutoff) == Cardinality({r \in rs : r.timestamp <= cutoff})
SelectCountOld(rs, cutoff) == Cardinality({r \in rs : r.timestamp < cutoff})

\* DELETE FROM cache WHERE timestamp < ?
DeleteOldInclusive(rs, cutoff) == {r \in rs : ~(r.timestamp <= cutoff)}
DeleteOld(rs, cutoff) == {r \in rs : ~(r.timestamp < cutoff)}

\* the set calls of the keys that lost their row are forgotten
Forget(after) == [k \in Keys |-> IF \E r \in after : r.key = k THEN sets[k] ELSE NoSet]

\* get: the outcome; fault: conn.execute raises
get_unguarded(rs, k, fault) ==
    IF fault THEN Raised("get", k)
    ELSE LET found == SelectValue(rs, k) IN
         IF found # {}
         THEN LET row == CHOOSE r \in found : TRUE
                  v == loads(row.value)
              IN IF v = JSONDecodeError
                 THEN [Raised("get", k) EXCEPT !.val = JSONDecodeError, !.fault = FALSE]
                 ELSE Returned("get", k, v, FALSE)
         ELSE Returned("get", k, PyNone, FALSE)
get_no_loads(rs, k, fault) ==
    IF fault THEN Returned("get", k, PyNone, TRUE)
    ELSE LET found == SelectValue(rs, k) IN
         IF found # {}
         THEN LET row == CHOOSE r \in found : TRUE
              IN Returned("get", k, [ty |-> "str", text |-> row.value], FALSE)
         ELSE Returned("get", k, PyNone, FALSE)
get_if_fresh(rs, k, fault) ==
    IF fault THEN Returned("get", k, PyNone, TRUE)
    ELSE LET found == {r \in SelectValue(rs, k) :
                          now - r.timestamp <= max_age_hours * SecondsPerHour} IN
         IF found # {}
         THEN LET row == CHOOSE r \in found : TRUE
                  v == loads(row.value)
              IN IF v = JSONDecodeError
                 THEN Returned("get", k, PyNone, FALSE)
                 ELSE Returned("get", k, v, FALSE)
         ELSE Returned("get", k, PyNone, FALSE)
get_result(rs, k, fault) ==
    IF fault THEN Returned("get", k, PyNone, TRUE)
    ELSE LET found == SelectValue(rs, k) IN
         IF found # {}
         THEN LET row == CHOOSE r \in found : TRUE
                  v == loads(row.value)
              IN IF v = JSONDecodeError
                 THEN Returned("get", k, PyNone, FALSE)
                 ELSE Returned("get", k, v, FALSE)
         ELSE Returned("get", k, PyNone, FALSE)

\* __init__: _init_db, then _clean_old_entries
Construct(hours, fault) ==
    /\ IF fault
       THEN /\ ret' = Raised("__init__", "")
            /\ UNCHANGED <<phase, max_age_hours, rows, sets>>
       ELSE LET after == DeleteOld(rows, cutoff_time(now, hours)) IN
            /\ phase' = "open"
            /\ max_age_hours' = hours
            /\ rows' = after
            /\ sets' = Forget(after)
            /\ ret' = Returned("__init__", "", PyNone, FALSE)
    /\ UNCHANGED now
    /\ UNCHANGED <<retryVars, searchVars, keyVars, restVars>>

get(k, fault) ==
    /\ phase = "open"
    /\ ret' = get_result(rows, k, fault)
    /\ UNCHANGED <<phase, max_age_hours, rows, now, sets>>
    /\ UNCHANGED <<retryVars, searchVars, keyVars, restVars>>

set(k, v, fault) ==
    /\ phase = "open"
    /\ rows' = IF fault THEN rows ELSE InsertOrReplace(rows, Row(k, dumps(v), now))
    /\ sets' = [sets EXCEPT ![k] = SetCall(v, ~fault, sets[k], now)]
    /\ ret' = Returned("set", "", PyNone, FALSE)
    /\ UNCHANGED <<phase, max_age_hours, now>>
    /\ UNCHANGED <<retryVars, searchVars, keyVars, restVars>>

\* clear, as far as the cache goes
clear_rows(fault) ==
    /\ phase = "open"
    /\ IF fault
       THEN /\ ret' = Raised("clear", "")
            /\ UNCHANGED <<rows, sets>>
       ELSE /\ rows' = {}
            /\ sets' = [k \in Keys |-> NoSet]
            /\ ret' = Returned("clear", "", PyNone, FALSE)
    /\ UNCHANGED <<phase, max_age_hours, now>>

clear(fault) ==
    /\ clear_rows(fault)
    /\ UNCHANGED <<retryVars, searchVars, keyVars, restVars>>

get_stats(fault) ==
    /\ phase = "open"
    /\ ret' = IF fault THEN Raised("get_stats", "")
              ELSE LET RECURSIVE Sum(_)
                       Sum(S) == IF S = {} THEN 0
                                 ELSE LET r == CHOOSE x \in S : TRUE
                                      IN TextLength(r.value) + Sum(S \ {r})
                   IN Returned("get_stats", "",
                               [ty |-> "stats",
                                total_entries |-> Cardinality(rows),
                                total_size |-> Sum(rows),
                                max_age_hours |-> max_age_hours], FALSE)
    /\ UNCHANGED <<phase, max_age_hours, rows, now, sets>>
    /\ UNCHANGED <<retryVars, searchVars, keyVars, restVars>>

clear_old_entries(fault) ==
    /\ phase = "open"
    /\ IF fault
       THEN /\ ret' = Raised("clear_old_entries", "")
            /\ UNCHANGED <<rows, sets>>
       ELSE LET cutoff == cutoff_time(now, max_age_hours)
                count == SelectCountOld(rows, cutoff)
                after == DeleteOld(rows, cutoff)
            IN /\ rows' = after
               /\ sets' = Forget(after)
               /\ ret' = [Returned("clear_old_entries", "", PyInt(count), FALSE)
                             EXCEPT !.removed = Cardinality(rows) - Cardinality(after)]
    /\ UNCHANGED <<phase, max_age_hours, now>>
    /\ UNCHANGED <<retryVars, searchVars, keyVars, restVars>>

\* an hour passes
Tick ==
    /\ now < MaxTicks * SecondsPerHour
    /\ now' = now + SecondsPerHour
    /\ UNCHANGED <<phase, max_age_hours, rows, ret, sets>>
    /\ UNCHANGED <<retryVars, searchVars, keyVars, restVars>>

----------------------------------------------------------------------------
(* Several callers on one SQLiteCache: the connection is opened with
   check_same_thread=False and no lock guards it, so the statements of the
   callers' set, get and clear_old_entries interleave; SQLite runs each
   statement of the one connection as a whole *)

Callers == {"t1", "t2"}

\* the callers write to the same key
ConcKey == "k1"

\* the values the callers write: a list of book dicts and a dict that JSON
\* cannot hold as it is
ConcValues == Values \ {PyList(<<>>)}

IdleCaller == [pc |-> "idle", v |-> PyNone, ts |-> 0, cutoff |-> 0, count |-> 0]

NoWrite == [inserted |-> FALSE, returned |-> FALSE]

\* set, first statement: timestamp = time.time()
SetBegin(t, v) ==
    /\ phase = "open"
    /\ cthreads[t].pc = "idle"
    /\ cthreads' = [cthreads EXCEPT ![t] = [IdleCaller EXCEPT !.pc = "insert",
                                                            !.v = v, !.ts = now]]
    /\ UNCHANGED <<cacheVars, cwrites, cgot>>
    /\ UNCHANGED <<retryVars, searchVars, keyVars, limiterVars, engineVars, serviceVars>>

\* the row a set leaves in the table
set_execute_keep_both(rs, k, v, ts) == InsertOnly(rs, Row(k, dumps(v), ts))
set_execute(rs, k, v, ts) == InsertOrReplace(rs, Row(k, dumps(v), ts))

\* set, second statement: conn.execute(INSERT OR REPLACE); an exception is
\* logged and set returns
SetExecute(t, fault) ==
    /\ cthreads[t].pc = "insert"
    /\ LET v == cthreads[t].v IN
       IF fault
       THEN /\ cthreads' = [cthreads EXCEPT ![t] = IdleCaller]
            /\ cwrites' = [cwrites EXCEPT ![v].returned = TRUE]
            /\ UNCHANGED rows
       ELSE /\ rows' = set_execute(rows, ConcKey, v, cthreads[t].ts)
            /\ cthreads' = [cthreads EXCEPT ![t].pc = "commit"]
            /\ cwrites' = [cwrites EXCEPT ![v].inserted = TRUE]
    /\ UNCHANGED <<phase, max_age_hours, now, ret, sets, cgot>>
    /\ UNCHANGED <<retryVars, searchVars, keyVars, limiterVars, engineVars, serviceVars>>

\* set, last statement: conn.commit(), then set returns; the callers read
\* through the same connection, so the row showed before the commit
SetCommit(t) ==
    /\ cthreads[t].pc = "commit"
    /\ cthreads' = [cthreads EXCEPT ![t] = IdleCaller]
    /\ cwrites' = [cwrites EXCEPT ![cthreads[t].v].returned = TRUE]
    /\ UNCHANGED <<cacheVars, cgot>>
    /\ UNCHANGED <<retryVars, searchVars, keyVars, limiterVars, engineVars, serviceVars>>

\* get: one SELECT, then json.loads
CallerGet(t, fault) ==
    /\ phase = "open"
    /\ cthreads[t].pc = "idle"
    /\ cgot' = get_result(rows, ConcKey, fault).val
    /\ UNCHANGED <<cacheVars, cthreads, cwrites>>
    /\ UNCHANGED <<retryVars, searchVars, keyVars, limiterVars, engineVars, serviceVars>>

\* clear_old_entries, first statement: cutoff_time
CleanBegin(t) ==
    /\ phase = "open"
    /\ cthreads[t].pc = "idle"
    /\ cthreads' = [cthreads EXCEPT ![t] =
                       [IdleCaller EXCEPT !.pc = "count",
                                          !.cutoff = cutoff_time(now, max_age_hours)]]
    /\ UNCHANGED <<cacheVars, cwrites, cgot>>
    /\ UNCHANGED <<retryVars, searchVars, keyVars, limiterVars, engineVars, serviceVars>>

\* clear_old_entries: SELECT COUNT(*); an exception goes to the caller
CleanCount(t, fault) ==
    /\ cthreads[t].pc = "count"
    /\ cthreads' = [cthreads EXCEPT ![t] =
                       IF fault THEN IdleCaller
                       ELSE [@ EXCEPT !.pc = "delete",
                                      !.count = SelectCountOld(rows,
                                                               cthreads[t].cutoff)]]
    /\ UNCHANGED <<cacheVars, cwrites, cgot>>
    /\ UNCHANGED <<retryVars, searchVars, keyVars, limiterVars, engineVars, serviceVars>>

\* clear_old_entries: DELETE
CleanDelete(t) ==
    /\ cthreads[t].pc = "delete"
    /\ rows' = DeleteOld(rows, cthreads[t].cutoff)
    /\ cthreads' = [cthreads EXCEPT ![t].pc = "clean_commit"]
    /\ UNCHANGED <<phase, max_age_hours, now, ret, sets, cwrites, cgot>>
    /\ UNCHANGED <<retryVars, searchVars, keyVars, limiterVars, engineVars, serviceVars>>

\* clear_old_entries: conn.commit(), return count
CleanCommit(t) ==
    /\ cthreads[t].pc = "clean_commit"
    /\ cthreads' = [cthreads EXCEPT ![t] = IdleCaller]
    /\ UNCHANGED <<cacheVars, cwrites, cgot>>
    /\ UNCHANGED <<retryVars, searchVars, keyVars, limiterVars, engineVars, serviceVars>>

ConcIdle ==
    /\ cthreads = [t \in Callers |-> IdleCaller]
    /\ cwrites = [v \in ConcValues |-> NoWrite]
    /\ cgot = PyNone

\* one SQLiteCache, constructed on an empty table, handed to the callers
ConcInit ==
    /\ phase = "open"
    /\ max_age_hours = 1
    /\ rows = {}
    /\ now = 0
    /\ ret = Returned("__init__", "", PyNone, FALSE)
    /\ sets = [k \in Keys |-> NoSet]
    /\ ConcIdle

ConcNext ==
    \/ \E t \in Callers, v \in ConcValues : SetBegin(t, v)
    \/ \E t \in Callers, f \in BOOLEAN : SetExecute(t, f)
    \/ \E t \in Callers : SetCommit(t)
    \/ \E t \in Callers, f \in BOOLEAN : CallerGet(t, f)
    \/ \E t \in Callers : CleanBegin(t)
    \/ \E t \in Callers, f \in BOOLEAN : CleanCount(t, f)
    \/ \E t \in Callers : CleanDelete(t)
    \/ \E t \in Callers : CleanCommit(t)
    \/ Tick

----------------------------------------------------------------------------
(* retry_on_failure *)

\* delay and backoff are floats: here exact fractions n/d, with d > 0
Rat(n, d) == [n |-> n, d |-> d]
RatMul(x, y) == Rat(x.n * y.n, x.d * y.d)
RatAdd(x, y) == Rat((x.n * y.d) + (y.n * x.d), x.d * y.d)
RatEq(x, y) == x.n * y.d = y.n * x.d
RatLeq(x, y) == x.n * y.d <= y.n * x.d

Delays == {Rat(0, 1), Rat(1, 2), Rat(1, 1)}
Backoffs == {Rat(1, 2), Rat(1, 1), Rat(2, 1)}

Retryable == {"APIError", "RateLimitError", "APIConnectionError"}
Outcomes == {"ok"} \cup Retryable \cup {"ValueError"}

\* the exception raised by the i-th invocation; None before any
NoException == [type |-> "None", at |-> 0]
Exc(type, i) == [type |-> type, at |-> i]

\* except (APIError, RateLimitError, APIConnectionError)
CatchesAll(type) == type # "ok"
IsRetryable(type) == type \in Retryable

\* range(max_retries + 1)
AttemptsShort(max_retries) == 0..(max_retries - 1)
Attempts(max_retries) == 0..max_retries

\* last_exception = e
RememberFirst(prev, e) == IF prev = NoException THEN e ELSE prev
Remember(prev, e) == e

\* if attempt < max_retries
MayRetryNever(a, max_retries) == a > max_retries
MayRetryAlways(a, max_retries) == a <= max_retries
MayRetry(a, max_retries) == a < max_retries

\* current_delay *= backoff
NextDelayAdd(d, backoff) == RatAdd(d, backoff)
NextDelay(d, backoff) == RatMul(d, backoff)

\* after the body of the loop: the next iteration, or "raise last_exception"
LoopOn(a, exc) ==
    IF (a + 1) \in Attempts(rcfg.max_retries)
    THEN /\ attempt' = a + 1
         /\ rpc' = "attempting"
         /\ rres' = rres
    ELSE /\ attempt' = a
         /\ rpc' = "raised"
         /\ rres' = IF exc = NoException THEN Exc("TypeError", 0) ELSE exc

\* the decorated function is called: wrapper, up to its first iteration
Call(m, delay, backoff) ==
    /\ rpc = "idle"
    /\ rcfg' = [max_retries |-> m, delay |-> delay, backoff |-> backoff]
    /\ current_delay' = delay
    /\ last_exception' = NoException
    /\ calls' = <<>>
    /\ waits' = <<>>
    /\ IF 0 \in Attempts(m)
       THEN /\ attempt' = 0
            /\ rpc' = "attempting"
            /\ rres' = Exc("None", 0)
       ELSE /\ attempt' = 0
            /\ rpc' = "raised"
            /\ rres' = Exc("TypeError", 0)
    /\ UNCHANGED <<cacheVars, searchVars, keyVars, restVars>>

\* one iteration: func is invoked and ends as `outcome`
Attempt(outcome) ==
    /\ rpc = "attempting"
    /\ calls' = Append(calls, outcome)
    /\ LET e == Exc(outcome, Len(calls) + 1) IN
       IF outcome = "ok"
       THEN /\ rpc' = "returned"
            /\ rres' = Exc("value", Len(calls) + 1)
            /\ UNCHANGED <<attempt, last_exception>>
       ELSE IF IsRetryable(outcome)
       THEN /\ last_exception' = Remember(last_exception, e)
            /\ IF MayRetry(attempt, rcfg.max_retries)
               THEN /\ rpc' = "sleeping"
                    /\ UNCHANGED <<attempt, rres>>
               ELSE LoopOn(attempt, Remember(last_exception, e))
       ELSE /\ rpc' = "raised"
            /\ rres' = e
            /\ UNCHANGED <<attempt, last_exception>>
    /\ UNCHANGED <<rcfg, current_delay, waits>>
    /\ UNCHANGED <<cacheVars, searchVars, keyVars, restVars>>

\* time.sleep(current_delay) ends; current_delay *= backoff; the loop goes on
Sleep ==
    /\ rpc = "sleeping"
    /\ waits' = Append(waits, current_delay)
    /\ current_delay' = NextDelay(current_delay, rcfg.backoff)
    /\ LoopOn(attempt, last_exception)
    /\ UNCHANGED <<rcfg, last_exception, calls>>
    /\ UNCHANGED <<cacheVars, searchVars, keyVars, restVars>>

\* the caller has the result; the decorated function can be called again
Done ==
    /\ rpc \in {"returned", "raised"}
    /\ rpc' = "idle"
    /\ UNCHANGED <<rcfg, attempt, current_delay, last_exception, calls, waits, rres>>
    /\ UNCHANGED <<cacheVars, searchVars, keyVars, restVars>>

----------------------------------------------------------------------------
(* GoogleBooksAPI.search *)

\* the arguments of search
Request(query, max_results, lang, start_index) ==
    [query |-> query, max_results |-> max_results, lang |-> lang,
     start_index |-> start_index]

\* the searches made: two queries with the default max_results, lang and
\* start_index
SearchArgs == {Request("a", 20, "en", 0), Request("b", 20, "en", 0)}

\* f"search:{query}:{lang}:{max_results}:{start_index}"
cache_key_without_lang(a) ==
    "search:" \o a.query \o ":" \o ToString(a.max_results)
        \o ":" \o ToString(a.start_index)
cache_key(a) ==
    "search:" \o a.query \o ":" \o a.lang \o ":" \o ToString(a.max_results)
        \o ":" \o ToString(a.start_index)

\* "if cached := ...": the truth value of what cache.get returned
Truthy(v) ==
    CASE v.ty = "NoneType" -> FALSE
      [] v.ty = "int" -> v.n # 0
      [] v.ty = "bool" -> v.b
      [] v.ty = "str" -> v.s # ""
      [] v.ty \in {"list", "tuple"} -> v.items # <<>>
      [] v.ty = "dict" -> v.pairs # <<>>
      [] OTHER -> TRUE

\* what requests.get and raise_for_status can end in: a response with
\* status 200, or an exception (status 0: the exception has no response)
Failure(class, status) == [class |-> class, status |-> status]
NoRequest == Failure("none", 0)
Ok == Failure("ok", 200)
Failures ==
    { Failure("HTTPError", 429), Failure("HTTPError", 500), Failure("HTTPError", 404),
      Failure("Timeout", 0), Failure("ConnectionError", 0),
      Failure("RequestException", 429), Failure("ValueError", 0) }

\* the bodies of a response with status 200
Responses == {"no_items", "item_without_cover", "item_with_cover"}

\* books: the items that have a cover, as dicts
books_of(response) ==
    IF response = "item_with_cover"
    THEN PyList(<<PyDict(<< <<PyStr("a"), PyInt(1)>> >>)>>)
    ELSE PyList(<<>>)

\* the except clause that catches e, in the order of the clauses
ClauseWithoutCatchAll(e) ==
    CASE e.class = "HTTPError" -> "HTTPError"
      [] e.class = "Timeout" -> "Timeout"
      [] e.class \in {"ConnectionError", "RequestException"} -> "RequestException"
      [] OTHER -> "none"
Clause(e) ==
    CASE e.class = "HTTPError" -> "HTTPError"
      [] e.class = "Timeout" -> "Timeout"
      [] e.class \in {"ConnectionError", "RequestException"} -> "RequestException"
      [] OTHER -> "Exception"

\* the failures after which the loop goes on: status 429 and timeouts
RetriesTransient(e) ==
    \/ e.status = 429
    \/ e.status >= 500
    \/ e.class \in {"Timeout", "ConnectionError"}
Retries(e) ==
    \/ Clause(e) = "HTTPError" /\ e.status = 429
    \/ Clause(e) = "Timeout"
    \/ Clause(e) = "RequestException" /\ e.status = 429

\* if retry_count >= Config.MAX_RETRIES: return []
GivesUp(count, max) == count >= max

\* backoff_time = 2 ** retry_count
backoff_time_from_zero(count) == 2 ^ (count - 1)
backoff_time(count) == 2 ^ count

\* time.sleep(1) after a timeout
TimeoutSleep == 1

SleepFor(e, count) ==
    IF Clause(e) = "Timeout" THEN TimeoutSleep ELSE backoff_time(count)

\* what the cache did for the running search: the result last written for
\* the request, whether the SELECT raised, whether the INSERT ran, and the
\* time of the call of cache.get
NoResult == [ty |-> "no result"]
NoCache == [prior |-> NoResult, getfault |-> FALSE, stored |-> FALSE, at |-> 0]

\* search, up to the first test of the loop; fault: the SELECT of cache.get
\* raises
Search(a, max, fault) ==
    /\ phase = "open"
    /\ spc # "requesting"
    /\ sargs' = a
    /\ MAX_RETRIES' = max
    /\ retry_count' = 0
    /\ requests' = 0
    /\ sleeps' = <<>>
    /\ slast' = NoRequest
    /\ scache' = [prior |-> fetched[a], getfault |-> fault, stored |-> FALSE,
                   at |-> now]
    /\ LET cached == get_result(rows, cache_key(a), fault) IN
       IF cached.outcome = "raised"
       THEN /\ spc' = "raised"
            /\ sres' = cached.val
       ELSE IF Truthy(cached.val)
       THEN /\ spc' = "returned"
            /\ sres' = cached.val
       ELSE IF 0 < max
       THEN /\ spc' = "requesting"
            /\ sres' = PyNone
       ELSE /\ spc' = "returned"
            /\ sres' = PyList(<<>>)
    /\ UNCHANGED <<cacheVars, retryVars, fetched, keyVars, restVars>>

\* one iteration of the loop that ends in a response with status 200;
\* fault: the INSERT of cache.set raises
Respond(response, fault) ==
    /\ spc = "requesting"
    /\ requests' = requests + 1
    /\ slast' = Ok
    /\ LET books == books_of(response) IN
       /\ rows' = IF fault THEN rows
                  ELSE InsertOrReplace(rows, Row(cache_key(sargs), dumps(books), now))
       /\ fetched' = IF fault THEN fetched ELSE [fetched EXCEPT ![sargs] = books]
       /\ scache' = [scache EXCEPT !.stored = ~fault]
       /\ sres' = books
    /\ spc' = "returned"
    /\ UNCHANGED <<phase, max_age_hours, now, ret, sets>>
    /\ UNCHANGED <<sargs, MAX_RETRIES, retry_count, sleeps>>
    /\ UNCHANGED <<retryVars, keyVars, restVars>>

\* the table after an iteration that ended in an exception: no except
\* clause calls cache.set
rows_with_empty_list(rs, a, t) == InsertOrReplace(rs, Row(cache_key(a), dumps(PyList(<<>>)), t))
rows_after_failure(rs, a, t) == rs

\* one iteration of the loop that ends in the exception e, the sleep and
\* the next test of the loop included
Fail(e) ==
    /\ spc = "requesting"
    /\ requests' = requests + 1
    /\ slast' = e
    /\ IF Clause(e) = "none"
       THEN /\ spc' = "raised"
            /\ sres' = e
            /\ UNCHANGED <<retry_count, sleeps>>
       ELSE IF Retries(e)
       THEN /\ retry_count' = retry_count + 1
            /\ IF GivesUp(retry_count + 1, MAX_RETRIES)
               THEN /\ spc' = "returned"
                    /\ sres' = PyList(<<>>)
                    /\ UNCHANGED sleeps
               ELSE /\ sleeps' = Append(sleeps, [after |-> e,
                                                 seconds |-> SleepFor(e, retry_count + 1)])
                    /\ IF retry_count + 1 < MAX_RETRIES
                       THEN /\ spc' = "requesting"
                            /\ sres' = sres
                       ELSE /\ spc' = "returned"
                            /\ sres' = PyList(<<>>)
       ELSE /\ spc' = "returned"
            /\ sres' = PyList(<<>>)
            /\ UNCHANGED <<retry_count, sleeps>>
    /\ rows' = rows_after_failure(rows, sargs, now)
    /\ UNCHANGED <<phase, max_age_hours, now, ret, sets>>
    /\ UNCHANGED <<sargs, MAX_RETRIES, fetched, scache>>
    /\ UNCHANGED <<retryVars, keyVars, restVars>>

\* BookVaultService.clear_cache
clear_cache(fault) ==
    /\ clear_rows(fault)
    /\ fetched' = IF fault THEN fetched ELSE [a \in SearchArgs |-> NoResult]
    /\ UNCHANGED <<spc, sargs, MAX_RETRIES, retry_count, requests, sleeps, slast, sres,
                   scache>>
    /\ UNCHANGED <<retryVars, keyVars, restVars>>

\* the database file found on disk by the first constructor: none, or one
\* that holds a text for a search that json.loads rejects
SearchSeedTables == { {}, {Row(cache_key(Request("a", 20, "en", 0)), CorruptText, 0)} }

SearchIdle ==
    /\ spc = "idle"
    /\ sargs = Request("", 20, "en", 0)
    /\ MAX_RETRIES = 0
    /\ retry_count = 0
    /\ requests = 0
    /\ sleeps = <<>>
    /\ slast = NoRequest
    /\ sres = PyNone
    /\ fetched = [a \in SearchArgs |-> NoResult]
    /\ scache = NoCache

SearchNext ==
    \/ \E h \in 1..MaxAgeHours, f \in BOOLEAN : Construct(h, f)
    \/ \E a \in SearchArgs, m \in 0..MaxRetries, f \in BOOLEAN : Search(a, m, f)
    \/ \E r \in Responses, f \in BOOLEAN : Respond(r, f)
    \/ \E e \in Failures : Fail(e)
    \/ \E f \in BOOLEAN : clear_cache(f)

----------------------------------------------------------------------------
(* The cache key and the request parameters of search *)

MaxBuilt == 2        \* so many requests are compared with one another

\* Config.MAX_SEARCH_RESULTS
MAX_SEARCH_RESULTS == 40

\* str values, character by character
RECURSIVE Str(_)
Str(chars) ==
    IF chars = <<>> THEN ""
    ELSE IF Len(chars) = 1 THEN chars[1]
    ELSE Str(SubSeq(chars, 1, Len(chars) \div 2))
            \o Str(SubSeq(chars, Len(chars) \div 2 + 1, Len(chars)))

KeyQueries == { <<"a">>, <<"a", ":", "e", "n">> }
KeyLangs == { <<"e", "n">>, <<"f", "r">>, <<"e", "n", ":", "e", "n">> }
KeyMaxResults == {20, 40, 50}
KeyStartIndexes == {-1, 0, 10}

Min(x, y) == IF x <= y THEN x ELSE y

\* params, as requests.get sends them (the key of the API is the same in
\* every request of one GoogleBooksAPI); startIndex only when start_index > 0
request_params(a) ==
    LET params == [q |-> a.query,
                   maxResults |-> Min(a.max_results, MAX_SEARCH_RESULTS),
                   langRestrict |-> a.lang]
    IN IF a.start_index > 0
       THEN [q |-> params.q, maxResults |-> params.maxResults,
             langRestrict |-> params.langRestrict, startIndex |-> a.start_index]
       ELSE params

\* the first statements of search and of its loop: cache_key and params
Build(query, lang, max_results, start_index) ==
    /\ Len(built) < MaxBuilt
    /\ LET a == Request(Str(query), max_results, Str(lang), start_index) IN
       built' = Append(built, [query |-> query, lang |-> lang,
                               max_results |-> max_results,
                               start_index |-> start_index,
                               key |-> cache_key(a),
                               params |-> request_params(a)])
    /\ UNCHANGED <<cacheVars, retryVars, searchVars, restVars>>

KeyInit == built = <<>>

KeyNext ==
    \E q \in KeyQueries, l \in KeyLangs, n \in KeyMaxResults, s \in KeyStartIndexes :
        Build(q, l, n, s)

----------------------------------------------------------------------------
(* RateLimiter *)

MaxRequests == 2     \* max_requests ranges over 0..MaxRequests
MaxClock == 2        \* the clock of the rate limiter stops at this second

Windows == {1, 2}
Ids == {"user1", "user2"}
Threads == {"t1", "t2"}

\* the requests kept: [req_time for req_time in ... if req_time > cutoff]
KeepAll(times, cutoff) == times
Clean(times, cutoff) == SelectSeq(times, LAMBDA req_time : req_time > cutoff)

\* if len(self.requests[identifier]) >= self.max_requests
LimitPassed(times, max_requests) == Len(times) > max_requests
LimitReached(times, max_requests) == Len(times) >= max_requests

\* self.requests[identifier]: the list the identifier stands for
SlotShared(identifier) == "user1"
Slot(identifier) == identifier

\* f"Rate limit exceeded. Max {self.max_requests} requests per {self.time_window}s"
ExceededMessage(cfg) ==
    <<"Rate", " ", "limit", " ", "exceeded", ".", " ", "Max", " ",
      ToString(cfg.max_requests), " ", "requests", " ", "per", " ",
      ToString(cfg.time_window), "s">>

\* how many of the times lie in the window that ends at t
InWindow(times, t, window) ==
    Cardinality({i \in 1..Len(times) : times[i] > t - window /\ times[i] <= t})

\* the return value of is_allowed, with three notes: the time of the call,
\* how many allowed calls of the identifier lay in the window and the oldest
\* time that was recorded
LimiterReturn(identifier, allowed, msg, was) ==
    [id |-> identifier, allowed |-> allowed, msg |-> msg,
     at |-> ltime,
     before |-> InWindow(lallowed[identifier], ltime, lcfg.time_window),
     oldest |-> IF was = <<>> THEN -1 ELSE Head(was)]
NoLimiterCall ==
    [id |-> "", allowed |-> FALSE, msg |-> <<>>, at |-> 0, before |-> 0, oldest |-> -1]

IdleThread == [pc |-> "idle", id |-> "", now |-> 0]

\* is_allowed, run by one caller from its first statement to its return,
\* as far as the rate limiter goes
is_allowed_call(identifier) ==
    /\ \A t \in Threads : lthreads[t].pc = "idle"
    /\ LET cutoff == ltime - lcfg.time_window
           kept == Clean(self_requests[Slot(identifier)], cutoff)
       IN IF LimitReached(kept, lcfg.max_requests)
          THEN /\ self_requests' = [self_requests EXCEPT ![Slot(identifier)] = kept]
               /\ lret' = LimiterReturn(identifier, FALSE, ExceededMessage(lcfg),
                                        self_requests[Slot(identifier)])
               /\ UNCHANGED lallowed
          ELSE /\ self_requests' = [self_requests EXCEPT
                                        ![Slot(identifier)] = Append(kept, ltime)]
               /\ lret' = LimiterReturn(identifier, TRUE, <<>>,
                                        self_requests[Slot(identifier)])
               /\ lallowed' = [lallowed EXCEPT
                                  ![identifier] = Append(lallowed[identifier], ltime)]
    /\ UNCHANGED <<lcfg, ltime, lthreads>>

is_allowed(identifier) ==
    /\ is_allowed_call(identifier)
    /\ UNCHANGED <<cacheVars, retryVars, searchVars, keyVars, engineVars, serviceVars,
                   concVars>>

\* a second passes
LimiterTick ==
    /\ ltime < MaxClock
    /\ ltime' = ltime + 1
    /\ UNCHANGED <<lcfg, self_requests, lret, lallowed, lthreads>>
    /\ UNCHANGED <<cacheVars, retryVars, searchVars, keyVars, engineVars, serviceVars,
                   concVars>>

\* a thread enters is_allowed: now = time.time(); cutoff = now - self.time_window
Enter(t, identifier) ==
    /\ lthreads[t].pc = "idle"
    /\ lthreads' = [lthreads EXCEPT ![t] = [pc |-> "clean", id |-> identifier,
                                            now |-> ltime]]
    /\ UNCHANGED <<lcfg, self_requests, ltime, lret, lallowed>>
    /\ UNCHANGED <<cacheVars, retryVars, searchVars, keyVars, engineVars, serviceVars,
                   concVars>>

\* self.requests[identifier] = [...]
CleanOld(t) ==
    /\ lthreads[t].pc = "clean"
    /\ LET slot == Slot(lthreads[t].id) IN
       self_requests' = [self_requests EXCEPT
                            ![slot] = Clean(self_requests[slot],
                                            lthreads[t].now - lcfg.time_window)]
    /\ lthreads' = [lthreads EXCEPT ![t].pc = "check"]
    /\ UNCHANGED <<lcfg, ltime, lret, lallowed>>
    /\ UNCHANGED <<cacheVars, retryVars, searchVars, keyVars, engineVars, serviceVars,
                   concVars>>

\* if len(self.requests[identifier]) >= self.max_requests: return False, ...
CheckLimit(t) ==
    /\ lthreads[t].pc = "check"
    /\ IF LimitReached(self_requests[Slot(lthreads[t].id)], lcfg.max_requests)
       THEN /\ lthreads' = [lthreads EXCEPT ![t] = IdleThread]
            /\ lret' = LimiterReturn(lthreads[t].id, FALSE, ExceededMessage(lcfg),
                                     self_requests[Slot(lthreads[t].id)])
       ELSE /\ lthreads' = [lthreads EXCEPT ![t].pc = "append"]
            /\ UNCHANGED lret
    /\ UNCHANGED <<lcfg, self_requests, ltime, lallowed>>
    /\ UNCHANGED <<cacheVars, retryVars, searchVars, keyVars, engineVars, serviceVars,
                   concVars>>

\* self.requests[identifier].append(now); return True, None
Record(t) ==
    /\ lthreads[t].pc = "append"
    /\ LET slot == Slot(lthreads[t].id) IN
       /\ lret' = LimiterReturn(lthreads[t].id, TRUE, <<>>, self_requests[slot])
       /\ self_requests' = [self_requests EXCEPT
                               ![slot] = Append(self_requests[slot], lthreads[t].now)]
    /\ lallowed' = [lallowed EXCEPT
                       ![lthreads[t].id] = Append(lallowed[lthreads[t].id],
                                                  lthreads[t].now)]
    /\ lthreads' = [lthreads EXCEPT ![t] = IdleThread]
    /\ UNCHANGED <<lcfg, ltime>>
    /\ UNCHANGED <<cacheVars, retryVars, searchVars, keyVars, engineVars, serviceVars,
                   concVars>>

\* RateLimiter.__init__ with max_requests = 0 and time_window = 1; no call yet
LimiterIdle ==
    /\ lcfg = [max_requests |-> 0, time_window |-> 1]
    /\ self_requests = [i \in Ids |-> <<>>]
    /\ ltime = 0
    /\ lret = NoLimiterCall
    /\ lallowed = [i \in Ids |-> <<>>]
    /\ lthreads = [t \in Threads |-> IdleThread]

\* RateLimiter.__init__
LimiterInit ==
    /\ lcfg \in [max_requests : 0..MaxRequests, time_window : Windows]
    /\ self_requests = [i \in Ids |-> <<>>]
    /\ ltime = 0
    /\ lret = NoLimiterCall
    /\ lallowed = [i \in Ids |-> <<>>]
    /\ lthreads = [t \in Threads |-> IdleThread]

LimiterNext ==
    \/ \E i \in Ids : is_allowed(i)
    \/ LimiterTick

\* search_rate_limiter.is_allowed("global"): the threads use one identifier
SharedId == "user1"

ThreadsNext ==
    \/ \E t \in Threads : Enter(t, SharedId)
    \/ \E t \in Threads : CleanOld(t)
    \/ \E t \in Threads : CheckLimit(t)
    \/ \E t \in Threads : Record(t)
    \/ LimiterTick

(* AIRecommendationEngine *)

LruSize == 2         \* Config.CACHE_SIZE, the maxsize of the lru_cache

\* str.lower() and len() on the strs of the model
Lower(str) ==
    CASE str = "Dune" -> "dune"
      [] str = "Emma" -> "emma"
      [] str = "suggest Dune" -> "suggest dune"
      [] OTHER -> str
StrLen(str) ==
    CASE str = "" -> 0
      [] str = "a quote" -> 7
      [] str = "a longer quote" -> 14
      [] OTHER -> 9

\* dict.get(key, default)
DictGet(d, key, default) ==
    IF \E i \in 1..Len(d.pairs) : d.pairs[i][1] = PyStr(key)
    THEN d.pairs[CHOOSE i \in 1..Len(d.pairs) : d.pairs[i][1] = PyStr(key)][2]
    ELSE default

Book(title, cover_url) ==
    PyDict(<< <<PyStr("title"), PyStr(title)>>, <<PyStr("cover_url"), PyStr(cover_url)>> >>)

\* items[:n]
Take(items, n) == SubSeq(items, 1, Min(Len(items), n))

\* hashlib.md5(prompt.encode()).hexdigest(): one digest per prompt
md5(prompt) == "md5(" \o prompt \o ")"

\* _generate_cache_key
generate_cache_key(prompt) == "ai:" \o md5(prompt)

\* the prompts, as far as the arguments enter them
RecArg(title, author, description, categories, lang, max_results) ==
    [title |-> title, author |-> author, description |-> description,
     categories |-> categories, lang |-> lang, max_results |-> max_results]
recommendations_prompt(a) ==
    "Recommend " \o ToString(a.max_results * 2) \o " books similar to '" \o a.title
        \o "' by " \o a.author \o ". Categories: " \o a.categories
        \o ". Description: " \o a.description
captions_prompt(title, description, max_captions) ==
    "Generate " \o ToString(max_captions) \o " short catchy captions for the book titled '"
        \o title \o "' with description '" \o description \o "'."
quotes_prompt(title, author, description, num_quotes) ==
    "Based on the themes and style of '" \o title \o "' by " \o author \o ", create "
        \o ToString(num_quotes) \o " original quotes. Book description: " \o description
nl_prompt(query, max_results) ==
    "User query: '" \o query \o "' suggest " \o ToString(max_results)

\* the argument tuples of get_recommendations: the second differs from the
\* first in lang alone
RecArgs ==
    { RecArg("Dune", "Herbert", "sand", "Fiction", "en", 5),
      RecArg("Dune", "Herbert", "sand", "Fiction", "fr", 5),
      RecArg("Emma", "Austen", "love", "Fiction", "en", 1) }

\* how client.chat.completions.create ends: an exception of the API, or a
\* completion whose content splits into these stripped, non-empty lines
ApiError(type) == [ok |-> FALSE, error |-> type, lines |-> <<>>]
Completion(lines) == [ok |-> TRUE, error |-> "", lines |-> lines]
ApiErrors == {ApiError("RateLimitError")}

\* the calls of create that one call of a method makes: retry_on_failure
\* decorates none of the methods
CreateCalls == 1

\* books_api.search from its call to its return, for a request whose
\* requests.get ends as found says: a list of books of a response with
\* status 200, or SearchFails for the failures that make search return []
SearchFails == [ty |-> "fail"]
SearchOutcome(rs, a, found, t) ==
    LET cached == get_result(rs, cache_key(a), FALSE) IN
    IF Truthy(cached.val)
    THEN [books |-> cached.val, rows |-> rs]
    ELSE IF found = SearchFails
    THEN [books |-> PyList(<<>>), rows |-> rs]
    ELSE [books |-> found,
          rows |-> InsertOrReplace(rs, Row(cache_key(a), dumps(found), t))]

ItemsOf(v) == IF v.ty \in {"list", "tuple"} THEN v.items ELSE <<>>

\* the inner loop of get_recommendations over the results of one search
RECURSIVE TakeBooks(_, _, _, _, _)
TakeBooks(results, title, recs, seen, max_results) ==
    IF results = <<>> \/ Len(recs) >= max_results THEN [recs |-> recs, seen |-> seen]
    ELSE LET book == Head(results)
             book_title == Lower(DictGet(book, "title", PyStr("")).s)
         IN IF \/ book_title = Lower(title)
               \/ book_title \in seen
               \/ ~Truthy(DictGet(book, "cover_url", PyNone))
            THEN TakeBooks(Tail(results), title, recs, seen, max_results)
            ELSE TakeBooks(Tail(results), title, Append(recs, book),
                           seen \cup {book_title}, max_results)

\* the loop of get_recommendations over the lines of the completion; acc
\* holds the table, the recommendations, the titles seen and the number of
\* searches made
RECURSIVE Collect(_, _, _, _, _)
Collect(lines, a, shelf, acc, t) ==
    IF lines = <<>> \/ Len(acc.recs) >= a.max_results THEN acc
    ELSE LET clean_line == Head(lines) IN
         IF clean_line = "" \/ Lower(clean_line) = Lower(a.title)
         THEN Collect(Tail(lines), a, shelf, acc, t)
         ELSE LET out == SearchOutcome(acc.rows, Request(clean_line, 3, a.lang, 0),
                                       shelf, t)
                  took == TakeBooks(ItemsOf(out.books), a.title, acc.recs, acc.seen,
                                    a.max_results)
              IN Collect(Tail(lines), a, shelf,
                         [rows |-> out.rows, recs |-> took.recs, seen |-> took.seen,
                          searches |-> acc.searches + 1], t)

\* what one call of a method did and gave
EngineCall(method, args, hit, gets, creates, failed, searches, stored, outcome, result) ==
    [method |-> method, args |-> [of |-> args], hit |-> hit, gets |-> gets,
     creates |-> creates, failed |-> failed, searches |-> searches,
     stored |-> stored, outcome |-> outcome, result |-> result]
NoEngineCall ==
    EngineCall("none", <<>>, FALSE, 0, 0, FALSE, 0, FALSE, "none", PyNone)

\* the body of get_recommendations: the call it was and the table it leaves
recommend(rs, a, completion, shelf, getfault, setfault, t) ==
    LET cache_key_ai == generate_cache_key(recommendations_prompt(a))
        cached == get_result(rs, cache_key_ai, getfault).val
    IN IF Truthy(cached)
       THEN IF cached.ty = "list" /\ \A i \in 1..Len(cached.items) : cached.items[i].ty = "dict"
            THEN [call |-> EngineCall("get_recommendations", a, FALSE, 1, 0, FALSE, 0,
                                      FALSE, "returned",
                                      PyList(Take(SelectSeq(cached.items,
                                          LAMBDA book :
                                              Lower(DictGet(book, "title", PyStr("")).s)
                                                  # Lower(a.title)),
                                          a.max_results))),
                  rows |-> rs]
            ELSE [call |-> EngineCall("get_recommendations", a, FALSE, 1, 0, FALSE, 0,
                                      FALSE, "raised", [ty |-> "AttributeError"]),
                  rows |-> rs]
       ELSE IF ~completion.ok
       THEN [call |-> EngineCall("get_recommendations", a, FALSE, 1, CreateCalls, TRUE, 0,
                                 FALSE, "returned", PyList(<<>>)),
             rows |-> rs]
       ELSE LET done == Collect(completion.lines, a, shelf,
                                [rows |-> rs, recs |-> <<>>, seen |-> {Lower(a.title)},
                                 searches |-> 0], t)
                recommendations == PyList(done.recs)
            IN [call |-> EngineCall("get_recommendations", a, FALSE, 1, CreateCalls, FALSE,
                                    done.searches, ~setfault, "returned", recommendations),
                rows |-> IF setfault THEN done.rows
                         ELSE InsertOrReplace(done.rows,
                                  Row(cache_key_ai, dumps(recommendations), t))]

\* functools.lru_cache(maxsize): the entries, least recently used first
lru_find(cache, args) == {i \in 1..Len(cache) : cache[i].args = args}
InLru(cache, args) == lru_find(cache, args) # {}
LruValue(cache, args) == cache[CHOOSE i \in lru_find(cache, args) : TRUE].value
lru_touch(cache, args) ==
    LET i == CHOOSE j \in lru_find(cache, args) : TRUE
    IN SubSeq(cache, 1, i - 1) \o SubSeq(cache, i + 1, Len(cache)) \o <<cache[i]>>
lru_store_nonempty(cache, args, value, failed) ==
    IF value = PyList(<<>>) THEN cache
    ELSE LET c == Append(cache, [args |-> args, value |-> value, failed |-> failed])
         IN IF Len(c) > LruSize THEN Tail(c) ELSE c
lru_store(cache, args, value, failed) ==
    LET c == Append(cache, [args |-> args, value |-> value, failed |-> failed])
    IN IF Len(c) > LruSize THEN Tail(c) ELSE c

\* get_recommendations behind its lru_cache
get_recommendations(a, completion, shelf, getfault, setfault) ==
    /\ phase = "open"
    /\ IF InLru(lru, a)
       THEN /\ lru' = lru_touch(lru, a)
            /\ ecall' = EngineCall("get_recommendations", a, TRUE, 0, 0, FALSE, 0, FALSE,
                                   "returned", LruValue(lru, a))
            /\ rows' = rows
       ELSE \E body \in {recommend(rows, a, completion, shelf, getfault, setfault, now)} :
            /\ ecall' = body.call
            /\ rows' = body.rows
            /\ lru' = IF body.call.outcome = "raised" THEN lru
                      ELSE lru_store(lru, a, body.call.result, body.call.failed)
    /\ UNCHANGED <<phase, max_age_hours, now, ret, sets>>
    /\ UNCHANGED <<retryVars, searchVars, keyVars, limiterVars, serviceVars, concVars>>

\* get_captions and get_famous_quotes: the cached value, or the lines kept
\* of the completion, cut to the number asked for
text_call(method, prompt, kept, count, completion, getfault, setfault) ==
    LET cache_key_ai == generate_cache_key(prompt)
        cached == get_result(rows, cache_key_ai, getfault).val
    IN /\ phase = "open"
       /\ IF Truthy(cached)
          THEN /\ ecall' = EngineCall(method, prompt, FALSE, 1, 0, FALSE, 0, FALSE,
                                      "returned", cached)
               /\ rows' = rows
          ELSE IF ~completion.ok
          THEN /\ ecall' = EngineCall(method, prompt, FALSE, 1, CreateCalls, TRUE, 0,
                                      FALSE, "returned", PyList(<<>>))
               /\ rows' = rows
          ELSE LET texts == PyList(Take([i \in 1..Len(kept) |-> PyStr(kept[i])], count))
               IN /\ ecall' = EngineCall(method, prompt, FALSE, 1, CreateCalls, FALSE, 0,
                                         ~setfault, "returned", texts)
                  /\ rows' = IF setfault THEN rows
                             ELSE InsertOrReplace(rows, Row(cache_key_ai, dumps(texts), now))
       /\ UNCHANGED <<phase, max_age_hours, now, ret, sets>>
       /\ UNCHANGED lru
       /\ UNCHANGED <<retryVars, searchVars, keyVars, limiterVars, serviceVars, concVars>>

get_captions(title, description, max_captions, completion, getfault, setfault) ==
    text_call("get_captions", captions_prompt(title, description, max_captions),
              completion.lines, max_captions, completion, getfault, setfault)

get_famous_quotes(title, author, description, num_quotes, completion, getfault, setfault) ==
    text_call("get_famous_quotes", quotes_prompt(title, author, description, num_quotes),
              SelectSeq(completion.lines, LAMBDA q : StrLen(q) > 10), num_quotes,
              completion, getfault, setfault)

\* any(indicator in query.lower() for indicator in nl_indicators)
is_nl_query(query) == Lower(query) \in {"suggest dune"}

\* interpret_natural_language_query
interpret_natural_language_query(query, max_results, lang, completion, shelf, getfault, setfault) ==
    LET cache_key_ai == generate_cache_key(nl_prompt(query, max_results))
        cached == get_result(rows, cache_key_ai, getfault).val
        Answer(nl, terms, books) ==
            PyDict(<< <<PyStr("is_nl_query"), PyBool(nl)>>,
                      <<PyStr("search_terms"), PyList(terms)>>,
                      <<PyStr("books"), PyList(books)>> >>)
    IN /\ phase = "open"
       /\ IF ~is_nl_query(query)
          THEN /\ ecall' = EngineCall("interpret_natural_language_query", query, FALSE,
                                      0, 0, FALSE, 0, FALSE, "returned",
                                      Answer(FALSE, <<>>, <<>>))
               /\ rows' = rows
          ELSE IF Truthy(cached)
          THEN /\ ecall' = EngineCall("interpret_natural_language_query", query, FALSE,
                                      1, 0, FALSE, 0, FALSE, "returned", cached)
               /\ rows' = rows
          ELSE IF ~completion.ok
          THEN /\ ecall' = EngineCall("interpret_natural_language_query", query, FALSE,
                                      1, CreateCalls, TRUE, 0, FALSE, "returned",
                                      PyDict(<< <<PyStr("is_nl_query"), PyBool(TRUE)>>,
                                                <<PyStr("search_terms"), PyList(<<>>)>>,
                                                <<PyStr("books"), PyList(<<>>)>>,
                                                <<PyStr("error"), PyStr(completion.error)>> >>))
               /\ rows' = rows
          ELSE LET terms == SelectSeq(completion.lines, LAMBDA line : StrLen(line) >= 5)
                   \* no title is left out: the one seen is the empty set
                   done == Collect(terms, RecArg("", "", "", "", lang, max_results), shelf,
                                   [rows |-> rows, recs |-> <<>>, seen |-> {},
                                    searches |-> 0], now)
                   result == Answer(TRUE, [i \in 1..Len(terms) |-> PyStr(terms[i])],
                                    done.recs)
               IN /\ ecall' = EngineCall("interpret_natural_language_query", query, FALSE,
                                         1, CreateCalls, FALSE, done.searches, ~setfault,
                                         "returned", result)
                  /\ rows' = IF setfault THEN done.rows
                             ELSE InsertOrReplace(done.rows,
                                      Row(cache_key_ai, dumps(result), now))
       /\ UNCHANGED <<phase, max_age_hours, now, ret, sets>>
       /\ UNCHANGED lru
       /\ UNCHANGED <<retryVars, searchVars, keyVars, limiterVars, serviceVars, concVars>>

\* verify_books_batch, as a function: the books the completion's numbers
\* name (valid_indices, from 0), all the books when create raises
verified(books, completion) ==
    IF books.items = <<>> THEN PyList(<<>>)
    ELSE IF ~completion.ok THEN books
    ELSE PyList([i \in 1..Len(SelectSeq(completion.lines,
                                   LAMBDA n : 0 <= n /\ n < Len(books.items)))
                   |-> books.items[SelectSeq(completion.lines,
                          LAMBDA n : 0 <= n /\ n < Len(books.items))[i] + 1]])

verify_books_batch(books, expected_genre, completion) ==
    /\ phase = "open"
    /\ ecall' = EngineCall("verify_books_batch", expected_genre, FALSE, 0,
                           IF books.items = <<>> THEN 0 ELSE CreateCalls,
                           books.items # <<>> /\ ~completion.ok, 0, FALSE, "returned",
                           verified(books, completion))
    /\ UNCHANGED <<cacheVars, lru>>
    /\ UNCHANGED <<retryVars, searchVars, keyVars, limiterVars, serviceVars, concVars>>

\* what the searches of the engine find on the API, for every line alike
Shelves ==
    { SearchFails,
      PyList(<<Book("dune", "http://c"), Book("Emma", ""), Book("Emma", "http://c")>>) }

Completions ==
    ApiErrors \cup { Completion(<<>>), Completion(<<"Dune", "Emma by Austen", "">>) }
TextCompletions ==
    ApiErrors \cup { Completion(<<"a quote", "a longer quote">>) }
IndexCompletions ==
    ApiErrors \cup { Completion(<<>>), Completion(<<1, 5>>) }
BookLists ==
    { PyList(<<>>), PyList(<<Book("Emma", "http://c"), Book("Dune", "")>>) }

\* the table found by the constructor: empty, or one where something else
\* wrote a dict under the key of a recommendation
EngineSeedTables ==
    { {},
      {Row(generate_cache_key(recommendations_prompt(
               RecArg("Emma", "Austen", "love", "Fiction", "en", 1))),
           dumps(PyDict(<< <<PyStr("title"), PyStr("Emma")>> >>)), 0)} }

EngineIdle ==
    /\ lru = <<>>
    /\ ecall = NoEngineCall

\* BookVaultService.__init__: the cache is constructed before the engine
EngineInit ==
    /\ phase = "open"
    /\ max_age_hours = 1
    /\ rows \in EngineSeedTables
    /\ now = 0
    /\ ret = Returned("__init__", "", PyNone, FALSE)
    /\ sets = [k \in Keys |-> NoSet]
    /\ EngineIdle

EngineNext ==
    \/ \E c \in Completions, s \in Shelves, g \in BOOLEAN, f \in BOOLEAN :
          get_recommendations(RecArg("Emma", "Austen", "love", "Fiction", "en", 1),
                              c, s, g, f)
    \/ \E c \in TextCompletions, g \in BOOLEAN, f \in BOOLEAN :
          get_captions("Dune", "sand", 1, c, g, f)
    \/ \E c \in TextCompletions, g \in BOOLEAN, f \in BOOLEAN :
          get_famous_quotes("Dune", "Herbert", "sand", 3, c, g, f)
    \/ \E q \in {"Dune", "suggest Dune"}, c \in Completions, s \in Shelves,
          g \in BOOLEAN, f \in BOOLEAN :
          interpret_natural_language_query(q, 15, "en", c, s, g, f)
    \/ \E b \in BookLists, c \in IndexCompletions : verify_books_batch(b, "Fiction", c)

\* get_recommendations called with three argument tuples, and the SQLite
\* cache cleared in between
LruNext ==
    \/ \E a \in RecArgs, c \in Completions, s \in Shelves, g \in BOOLEAN :
          get_recommendations(a, c, s, g, FALSE)
    \/ \E f \in BOOLEAN : clear(f)

(* InputValidator and BookVaultService.search_books; a query is the
   sequence of its characters *)

MAX_QUERY_LENGTH == 500

\* c * n
RECURSIVE Chars(_, _)
Chars(n, c) ==
    IF n = 0 THEN <<>>
    ELSE IF n = 1 THEN <<c>>
    ELSE Chars(n \div 2, c) \o Chars(n - n \div 2, c)

\* str.lower(), character by character
LowerChar(c) ==
    CASE c = "S" -> "s" [] c = "C" -> "c" [] c = "R" -> "r" [] c = "I" -> "i"
      [] c = "P" -> "p" [] c = "T" -> "t" [] OTHER -> c
LowerChars(chars) == [i \in 1..Len(chars) |-> LowerChar(chars[i])]

\* pattern in text
Contains(text, pattern) ==
    \E i \in 1..(Len(text) - Len(pattern) + 1) :
        SubSeq(text, i, i + Len(pattern) - 1) = pattern

dangerous_patterns ==
    { <<"<", "s", "c", "r", "i", "p", "t">>,
      <<"j", "a", "v", "a", "s", "c", "r", "i", "p", "t", ":">>,
      <<"o", "n", "e", "r", "r", "o", "r", "=">>,
      <<"o", "n", "c", "l", "i", "c", "k", "=">> }

Valid == [is_valid |-> TRUE, error |-> "None"]
Invalid(error) == [is_valid |-> FALSE, error |-> error]

accept_any_query(query) == Valid
validate_search_query(query) ==
    IF query = <<>> THEN Invalid("Search query cannot be empty")
    ELSE IF Len(query) > MAX_QUERY_LENGTH
    THEN Invalid("Search query too long (max " \o ToString(MAX_QUERY_LENGTH)
                     \o " characters)")
    ELSE IF \E pattern \in dangerous_patterns : Contains(LowerChars(query), pattern)
    THEN Invalid("Invalid characters in search query")
    ELSE Valid

\* str.strip()
Whitespace == {" ", "\t", "\n"}
RECURSIVE LStrip(_)
LStrip(chars) ==
    IF chars # <<>> /\ Head(chars) \in Whitespace THEN LStrip(Tail(chars)) ELSE chars
RECURSIVE RStrip(_)
RStrip(chars) ==
    IF chars # <<>> /\ chars[Len(chars)] \in Whitespace
    THEN RStrip(SubSeq(chars, 1, Len(chars) - 1))
    ELSE chars
Strip(chars) == RStrip(LStrip(chars))

\* html.escape
EscapeChar(c) ==
    CASE c = "&" -> <<"&", "a", "m", "p", ";">>
      [] c = "<" -> <<"&", "l", "t", ";">>
      [] c = ">" -> <<"&", "g", "t", ";">>
      [] c = "\"" -> <<"&", "q", "u", "o", "t", ";">>
      [] c = "'" -> <<"&", "#", "x", "2", "7", ";">>
      [] OTHER -> <<c>>
RECURSIVE Escape(_)
Escape(chars) ==
    IF chars = <<>> THEN <<>>
    ELSE IF Len(chars) = 1 THEN EscapeChar(chars[1])
    ELSE Escape(SubSeq(chars, 1, Len(chars) \div 2))
            \o Escape(SubSeq(chars, Len(chars) \div 2 + 1, Len(chars)))

\* ord(char) >= 32 or char == '\n'
ControlChars == {"\t"}

sanitize_string(input_str, max_length) ==
    IF input_str = <<>> THEN <<>>
    ELSE LET sanitized == SelectSeq(Escape(Strip(input_str)),
                                    LAMBDA char : char \notin ControlChars)
         IN IF max_length # 0 /\ Len(sanitized) > max_length
            THEN SubSeq(sanitized, 1, max_length)
            ELSE sanitized

\* filter_books_with_images
CoverLength(str) ==
    CASE str = "" -> 0
      [] str = "http://c" -> 8
      [] str = "http://c/cover.jpg" -> 18
valid_cover(book) ==
    LET cover_url == DictGet(book, "cover_url", PyStr("")) IN
    /\ cover_url.ty = "str"
    /\ cover_url.s # ""
    /\ CoverLength(cover_url.s) > 10
filter_books_with_images(books) ==
    PyList(SelectSeq(ItemsOf(books), LAMBDA book : book.ty = "dict" /\ valid_cover(book)))

\* what one call of search_books did: its query and the two settings of
\* Config, whether the rate limiter was asked, the calls of books_api.search
\* and of verify_books_batch, and the result
ServiceCall(query, validation, rate_limit, asked, api, verifies, result) ==
    [query |-> query, validation |-> validation, rate_limit |-> rate_limit,
     asked |-> asked, api |-> api, verifies |-> verifies, result |-> result]
NoServiceCall == ServiceCall(<<>>, FALSE, FALSE, FALSE, <<>>, 0, PyNone)

\* search_books; validation and rate_limit: Config.ENABLE_INPUT_VALIDATION
\* and Config.RATE_LIMIT_ENABLED; found: what the books API answers;
\* completion: how the create of verify_books_batch ends
search_books(query, validation, rate_limit, found, expected_genre, completion) ==
    /\ phase = "open"
    /\ IF validation /\ ~validate_search_query(query).is_valid
       THEN /\ svc' = ServiceCall(query, validation, rate_limit, FALSE, <<>>, 0,
                                  PyList(<<>>))
            /\ UNCHANGED <<rows, limiterVars>>
       ELSE LET sanitized == Str(sanitize_string(query, MAX_QUERY_LENGTH))
                a == Request(sanitized, 20, "en", 0)
            IN /\ IF rate_limit THEN is_allowed_call(SharedId) ELSE UNCHANGED limiterVars
               /\ IF rate_limit /\ ~lret'.allowed
                  THEN /\ svc' = ServiceCall(query, validation, rate_limit, TRUE, <<>>, 0,
                                             PyList(<<>>))
                       /\ rows' = rows
                  ELSE LET out == SearchOutcome(rows, a, found, now)
                           verify == expected_genre # "" /\ Truthy(out.books)
                           books == IF verify /\ out.books.ty = "list"
                                    THEN verified(out.books, completion)
                                    ELSE out.books
                       IN /\ svc' = ServiceCall(query, validation, rate_limit, rate_limit,
                                                <<a>>, IF verify THEN 1 ELSE 0,
                                                filter_books_with_images(books))
                          /\ rows' = out.rows
    /\ UNCHANGED <<phase, max_age_hours, now, ret, sets>>
    /\ UNCHANGED <<retryVars, searchVars, keyVars, engineVars, concVars>>

\* the queries: the long one is searched with the validation enabled only
ShortQueries ==
    { <<>>, <<" ">>, <<" ", "a", "&", "\t", "b", " ">>,
      <<"<", "S", "c", "r", "i", "p", "t", ">">> }
Queries == ShortQueries \cup { Chars(MAX_QUERY_LENGTH + 1, "x") }

Found ==
    { SearchFails,
      PyList(<<Book("Emma", "http://c/cover.jpg"), Book("Dune", "http://c")>>) }

ServiceIdle == svc = NoServiceCall

\* search_rate_limiter: 100 searches per minute in the source, one per
\* second here
ServiceLimits == [max_requests : {1}, time_window : {1}]

ServiceInit ==
    /\ phase = "open"
    /\ max_age_hours = 1
    /\ rows = {}
    /\ now = 0
    /\ ret = Returned("__init__", "", PyNone, FALSE)
    /\ sets = [k \in Keys |-> NoSet]
    /\ LimiterInit
    /\ lcfg \in ServiceLimits
    /\ EngineIdle
    /\ ServiceIdle
    /\ ConcIdle

ServiceNext ==
    \/ \E q \in Queries, r \in BOOLEAN, f \in Found, c \in ApiErrors :
          search_books(q, TRUE, r, f, "", c)
    \/ \E q \in ShortQueries, r \in BOOLEAN, f \in Found, c \in ApiErrors :
          search_books(q, FALSE, r, f, "", c)
    \/ \E q \in ShortQueries, r \in BOOLEAN, f \in Found,
          c \in ApiErrors \cup {Completion(<<0>>)} :
          search_books(q, TRUE, r, f, "Fiction", c)
    \/ LimiterTick

RestIdle == LimiterIdle /\ EngineIdle /\ ServiceIdle /\ ConcIdle

RetryInit ==
    /\ rcfg = [max_retries |-> 0, delay |-> Rat(0, 1), backoff |-> Rat(1, 1)]
    /\ rpc = "idle"
    /\ attempt = 0
    /\ current_delay = Rat(0, 1)
    /\ last_exception = NoException
    /\ calls = <<>>
    /\ waits = <<>>
    /\ rres = Exc("None", 0)

RetryNext ==
    \/ \E m \in (-1)..MaxRetries, d \in Delays, b \in Backoffs : Call(m, d, b)
    \/ \E o \in Outcomes : Attempt(o)
    \/ Sleep
    \/ Done

CacheInit ==
    /\ phase = "closed"
    /\ max_age_hours = 0
    /\ rows \in SeedTables
    /\ now = 0
    /\ ret = NoCall
    /\ sets = [k \in Keys |-> NoSet]

Init == CacheInit /\ RetryInit /\ SearchIdle /\ KeyInit /\ RestIdle

CacheNext ==
    \/ \E h \in 1..MaxAgeHours, f \in BOOLEAN : Construct(h, f)
    \/ \E k \in Keys, f \in BOOLEAN : get(k, f)
    \/ \E k \in Keys, v \in Values, f \in BOOLEAN : set(k, v, f)
    \/ \E f \in BOOLEAN : clear(f)
    \/ \E f \in BOOLEAN : get_stats(f)
    \/ \E f \in BOOLEAN : clear_old_entries(f)
    \/ Tick

CacheSpec == Init /\ [][CacheNext]_vars

RetrySpec == Init /\ [][RetryNext]_vars

SearchInit ==
    /\ phase = "closed"
    /\ max_age_hours = 0
    /\ rows \in SearchSeedTables
    /\ now = 0
    /\ ret = NoCall
    /\ sets = [k \in Keys |-> NoSet]
    /\ RetryInit
    /\ SearchIdle
    /\ KeyInit
    /\ RestIdle

SearchSpec == SearchInit /\ [][SearchNext]_vars

KeySpec == Init /\ [][KeyNext]_vars

\* one of the two retry paths runs: retry_on_failure or search
RetryUntouched == rpc = "idle" /\ rres = Exc("None", 0)
SearchUntouched == phase = "closed" /\ ret = NoCall

PathsNext ==
    \/ SearchUntouched /\ RetryNext
    \/ RetryUntouched /\ SearchNext

PathsSpec == SearchInit /\ [][PathsNext]_vars

\* the cache as the application uses it over the hours: searches, the
\* sweeps of the constructor and of clear_old_entries, and reads of the
\* entries of the searches
AgeNext ==
    \/ \E h \in 1..MaxAgeHours : Construct(h, FALSE)
    \/ \E a \in SearchArgs, f \in BOOLEAN : Search(a, 1, f)
    \/ \E r \in Responses : Respond(r, FALSE)
    \/ \E e \in {Failure("HTTPError", 500)} : Fail(e)
    \/ \E a \in SearchArgs, f \in BOOLEAN : get(cache_key(a), f)
    \/ clear_old_entries(FALSE)
    \/ Tick

AgeSpec == SearchInit /\ [][AgeNext]_vars

\* the state the rate limiter leaves untouched
Untouched ==
    /\ CacheInit /\ rows = {}
    /\ RetryInit
    /\ SearchIdle
    /\ KeyInit

\* a RateLimiter, constructed, and everything else as it starts
LimiterStart == Untouched /\ LimiterInit /\ EngineIdle /\ ServiceIdle /\ ConcIdle

LimiterSpec == LimiterStart /\ [][LimiterNext]_vars

\* an AIRecommendationEngine, constructed, and everything else as it starts
EngineStart ==
    /\ EngineInit
    /\ RetryInit /\ SearchIdle /\ KeyInit /\ LimiterIdle /\ ServiceIdle /\ ConcIdle

EngineSpec == EngineStart /\ [][EngineNext]_vars

LruSpec == EngineStart /\ [][LruNext]_vars

\* a BookVaultService, constructed, and everything else as it starts
ServiceStart == ServiceInit /\ RetryInit /\ SearchIdle /\ KeyInit

ServiceSpec == ServiceStart /\ [][ServiceNext]_vars

ThreadsSpec == LimiterStart /\ [][ThreadsNext]_vars

\* the shared SQLiteCache, constructed, and everything else as it starts
ConcStart ==
    /\ ConcInit
    /\ RetryInit /\ SearchIdle /\ KeyInit /\ LimiterIdle /\ EngineIdle /\ ServiceIdle

ConcSpec == ConcStart /\ [][ConcNext]_vars

----------------------------------------------------------------------------
(* What the cache claims speak of *)

\* a value made of None, int, str, list and dict with str keys only
RECURSIVE IsJsonNative(_)
IsJsonNative(v) ==
    CASE v.ty \in {"NoneType", "int", "str"} -> TRUE
      [] v.ty = "list" -> \A i \in 1..Len(v.items) : IsJsonNative(v.items[i])
      [] v.ty = "dict" ->
            \A i \in 1..Len(v.pairs) :
                v.pairs[i][1].ty = "str" /\ IsJsonNative(v.pairs[i][2])
      [] OTHER -> FALSE

\* the value with every tuple turned into a list and every dict key into a str
RECURSIVE JsonForm(_)
JsonForm(v) ==
    CASE v.ty \in {"list", "tuple"} ->
            PyList([i \in 1..Len(v.items) |-> JsonForm(v.items[i])])
      [] v.ty = "dict" ->
            PyDict([i \in 1..Len(v.pairs) |->
                       << IF v.pairs[i][1].ty = "int"
                          THEN PyStr(ToString(v.pairs[i][1].n))
                          ELSE v.pairs[i][1],
                          JsonForm(v.pairs[i][2]) >>])
      [] OTHER -> v

BookList == PyList(<<PyDict(<< <<PyStr("a"), PyInt(1)>> >>)>>)

Expired(r, t, hours) == t - r.timestamp > hours * SecondsPerHour

\* C1 as stated: after set(k, v), with the row of k not removed since,
\* get(k) returns v, for every value v that json.dumps accepts (storage
\* working in both calls).
C1_RoundTripAnyValue ==
    (ret.op = "get" /\ ~ret.fault /\ sets[ret.key].called /\ sets[ret.key].stored)
        => ret.val = sets[ret.key].v

\* C1: after a set(k, v) whose INSERT ran, with the row of k not removed
\* since, a get(k) whose SELECT ran returns v with tuples turned into lists
\* and dict keys into strings; it returns v itself when v is made of None,
\* int, str, list and str-keyed dict only.
C1_RoundTrip ==
    (ret.op = "get" /\ ~ret.fault /\ sets[ret.key].called /\ sets[ret.key].stored)
        => /\ ret.val = JsonForm(sets[ret.key].v)
           /\ IsJsonNative(sets[ret.key].v) => ret.val = sets[ret.key].v

C1_Witness ==
    /\ ret.op = "get" /\ ~ret.fault
    /\ sets[ret.key].called /\ sets[ret.key].stored
    /\ sets[ret.key].v = BookList
    /\ ret.val = BookList

C3_SweepRemovesExactlyExpired ==
    [][ (ret'.op \in {"__init__", "clear_old_entries"} /\ ret'.outcome = "returned"
            /\ now' = now)
          => /\ rows' = {r \in rows : ~Expired(r, now, max_age_hours')}
             /\ \A r \in rows :
                    get_result(rows', r.key, FALSE).val =
                        IF Expired(r, now, max_age_hours')
                        THEN PyNone
                        ELSE get_result(rows, r.key, FALSE).val ]_vars

C3_Witness ==
    /\ ret.op = "clear_old_entries" /\ ret.outcome = "returned"
    /\ ret.val.n = 1
    /\ \E r \in rows : now - r.timestamp < max_age_hours * SecondsPerHour

\* C4: clear_old_entries returns the number of rows it removed.
C4_ReturnsRemovedCount ==
    (ret.op = "clear_old_entries" /\ ret.outcome = "returned")
        => ret.val = PyInt(ret.removed)

C4_Witness ==
    /\ ret.op = "clear_old_entries" /\ ret.outcome = "returned"
    /\ ret.val.n = 2
    /\ ret.removed = 2
    /\ rows = {}

\* C5: get never raises; it returns None when the key has no row, when the
\* row's text is not JSON and when the SELECT raises.
C5_GetNeverRaises ==
    ret.op = "get"
        => /\ ret.outcome = "returned"
           /\ ( \/ ret.fault
                \/ SelectValue(rows, ret.key) = {}
                \/ \E r \in SelectValue(rows, ret.key) : r.value = CorruptText )
                  => ret.val = PyNone

C5_Witness ==
    /\ ret.op = "get" /\ ~ret.fault /\ ret.outcome = "returned"
    /\ \E r \in SelectValue(rows, ret.key) : r.value = CorruptText
    /\ ret.val = PyNone

\* C6 as stated: no call of get, set, clear, clear_old_entries or get_stats
\* raises, whatever the storage does.
C6_NoFaultSurfaces ==
    ret.op \in {"get", "set", "clear", "clear_old_entries", "get_stats"}
        => ret.outcome = "returned"

\* C7: the table holds at most one row per key, as many rows as keys, and
\* the row of a key is the one of the last set on it whose INSERT ran, with
\* that call's text and time.
C7_OneRowPerKey ==
    /\ \A r1, r2 \in rows : r1.key = r2.key => r1 = r2
    /\ Cardinality(rows) = Cardinality({r.key : r \in rows})
    /\ \A k \in Keys :
          sets[k].hasCur
              => SelectValue(rows, k) = {Row(k, dumps(sets[k].cur), sets[k].curAt)}

C7_Witness ==
    /\ ret.op = "set"
    /\ \A k \in Keys : sets[k].replaced /\ sets[k].curAt > 0
    /\ Cardinality(rows) = 2

----------------------------------------------------------------------------
(* What the retry claims speak of *)

RECURSIVE RatPow(_, _)
RatPow(x, i) == IF i = 0 THEN Rat(1, 1) ELSE RatMul(x, RatPow(x, i - 1))

AllRetryable == \A i \in 1..Len(calls) : calls[i] \in Retryable

\* C8: with max_retries >= 0 and every invocation failing with a retryable
\* error, the wrapper gives up after exactly max_retries + 1 invocations.
C8_ExactlyMaxRetriesPlusOne ==
    (rcfg.max_retries >= 0 /\ AllRetryable)
        => /\ Len(calls) <= rcfg.max_retries + 1
           /\ rpc = "raised" => Len(calls) = rcfg.max_retries + 1

C8_Witness ==
    /\ rpc = "raised" /\ AllRetryable
    /\ rcfg.max_retries = 2
    /\ Len(calls) = 3

WaitsFollowFormula ==
    \A i \in 1..Len(waits) :
        RatEq(waits[i], RatMul(rcfg.delay, RatPow(rcfg.backoff, i - 1)))

WaitsNonDecreasing ==
    \A i \in 1..(Len(waits) - 1) : RatLeq(waits[i], waits[i + 1])

\* C9 as stated: for every delay and backoff, the i-th wait is
\* delay * backoff^i (i from 0) and the waits never decrease.
C9_WaitsNeverDecrease == WaitsFollowFormula /\ WaitsNonDecreasing

\* C9: the i-th wait is delay * backoff^i (i from 0); the waits never
\* decrease when backoff >= 1.
C9_Backoff ==
    /\ WaitsFollowFormula
    /\ RatLeq(Rat(1, 1), rcfg.backoff) => WaitsNonDecreasing

C9_Witness ==
    /\ rcfg.delay = Rat(1, 1) /\ rcfg.backoff = Rat(2, 1)
    /\ Len(waits) = 3
    /\ RatEq(waits[1], Rat(1, 1)) /\ RatEq(waits[2], Rat(2, 1)) /\ RatEq(waits[3], Rat(4, 1))

\* C10: an invocation that fails with an error that is not retryable is the
\* last one: the wrapper raises that very exception, without sleeping after
\* it.
C10_NonRetryablePropagates ==
    \A i \in 1..Len(calls) :
        calls[i] \notin (Retryable \cup {"ok"})
            => /\ i = Len(calls)
               /\ rpc \in {"raised", "idle"}
               /\ rres = Exc(calls[i], i)
               /\ Len(waits) = i - 1

C10_Witness ==
    /\ rpc = "raised"
    /\ calls = <<"ValueError">>
    /\ waits = <<>>
    /\ rres = Exc("ValueError", 1)

\* C11: when the invocations 1..j-1 fail with retryable errors and
\* invocation j succeeds, the wrapper returns the value of invocation j after
\* exactly j invocations (j <= max_retries + 1) and j - 1 waits, and invokes
\* nothing after the success; with max_retries = 3, delay = 1, backoff = 2
\* and j = 4 the waits are 1, 2 and 4 seconds.
C11_SuccessEndsTheLoop ==
    \A j \in 1..Len(calls) :
        calls[j] = "ok"
            => /\ j = Len(calls)
               /\ j <= rcfg.max_retries + 1
               /\ \A i \in 1..(j - 1) : calls[i] \in Retryable
               /\ rpc \in {"returned", "idle"}
               /\ rres = Exc("value", j)
               /\ Len(waits) = j - 1
               /\ (rcfg = [max_retries |-> 3, delay |-> Rat(1, 1), backoff |-> Rat(2, 1)] /\ j = 4)
                    => waits = <<Rat(1, 1), Rat(2, 1), Rat(4, 1)>>

C11_Witness ==
    /\ rpc = "returned"
    /\ rcfg = [max_retries |-> 3, delay |-> Rat(1, 1), backoff |-> Rat(2, 1)]
    /\ calls = <<"RateLimitError", "APIError", "APIConnectionError", "ok">>
    /\ Len(waits) = 3
    /\ rres = Exc("value", 4)

Exhausted == rpc = "raised" /\ AllRetryable

\* C12 as stated: for every max_retries, the wrapper that has run out of
\* attempts raises the retryable exception of its last invocation.
C12_RaisesLastForEveryMaxRetries ==
    Exhausted
        => /\ rres.type \in Retryable
           /\ rres = Exc(calls[Len(calls)], Len(calls))

\* C12: for every max_retries >= 0, the wrapper that has run out of attempts
\* raises the retryable exception of its last invocation, not the one of an
\* earlier invocation and not an error of another type.
C12_RaisesLast ==
    (Exhausted /\ rcfg.max_retries >= 0)
        => /\ Len(calls) = rcfg.max_retries + 1
           /\ rres.type \in Retryable
           /\ rres = Exc(calls[Len(calls)], Len(calls))

C12_Witness ==
    /\ rpc = "raised"
    /\ rcfg.max_retries = 2
    /\ calls = <<"APIError", "APIConnectionError", "RateLimitError">>
    /\ rres = Exc("RateLimitError", 3)

\* C13: the wrapper sleeps only after an invocation that failed with a
\* retryable error while attempt < max_retries; the last invocation, be it
\* a success, a failure that is not retryable or the failure of the last
\* attempt, is followed by no sleep and by no further invocation.
C13_SleepOnlyBeforeARetry ==
    /\ rpc = "sleeping"
         => /\ Len(calls) >= 1
            /\ calls[Len(calls)] \in Retryable
            /\ attempt < rcfg.max_retries
            /\ Len(waits) = Len(calls) - 1
    /\ rpc = "attempting" => Len(waits) = Len(calls)
    /\ rpc \in {"returned", "raised", "idle"}
         => /\ Len(waits) = (IF calls = <<>> THEN 0 ELSE Len(calls) - 1)
            /\ \A i \in 1..Len(waits) : calls[i] \in Retryable
    /\ \A i \in 1..(Len(calls) - 1) : calls[i] \in Retryable
    /\ Len(calls) <= rcfg.max_retries + 1 \/ calls = <<>>

C13_Witness ==
    /\ rpc = "raised"
    /\ rcfg.max_retries = 1
    /\ calls = <<"APIError", "APIError">>
    /\ Len(waits) = 1

----------------------------------------------------------------------------
(* What the search claims speak of *)

RateLimited(e) == e.status = 429

\* the failures the specification calls transient
Transient ==
    {e \in Failures : e.status = 429 \/ e.status >= 500
                        \/ e.class \in {"Timeout", "ConnectionError"}}

\* the transient failures after which search tries again
Retried == {e \in Transient : e.status = 429 \/ e.class = "Timeout"}

SearchSleepsPowersOfTwo ==
    \A i \in 1..Len(sleeps) : RateLimited(sleeps[i].after) => sleeps[i].seconds = 2 ^ i

\* C14 as stated: in retry_on_failure and in search alike, the i-th wait is
\* 2^i seconds after a rate-limit failure and delay * backoff^(i-1) after
\* another retryable failure.
C14_TwoSchedulesInBothPaths ==
    /\ SearchSleepsPowersOfTwo
    /\ \A i \in 1..Len(waits) :
          IF calls[i] = "RateLimitError"
          THEN RatEq(waits[i], Rat(2 ^ i, 1))
          ELSE RatEq(waits[i], RatMul(rcfg.delay, RatPow(rcfg.backoff, i - 1)))

\* C14: search waits 2^retry_count seconds (2, 4, ...) after a status 429
\* and one second after a timeout; retry_on_failure has one progression:
\* its i-th wait is delay * backoff^(i-1) after every retryable failure,
\* RateLimitError included.
C14_TwoSchedulesInSearchOnly ==
    /\ SearchSleepsPowersOfTwo
    /\ \A i \in 1..Len(sleeps) :
          /\ sleeps[i].after \in Retried
          /\ ~RateLimited(sleeps[i].after) => sleeps[i].seconds = TimeoutSleep
    /\ \A i \in 1..Len(waits) :
          /\ calls[i] \in Retryable
          /\ calls[i] = "RateLimitError"
                => RatEq(waits[i], RatMul(rcfg.delay, RatPow(rcfg.backoff, i - 1)))

C14_Witness ==
    /\ Len(sleeps) = 2
    /\ sleeps[1] = [after |-> Failure("Timeout", 0), seconds |-> 1]
    /\ sleeps[2] = [after |-> Failure("HTTPError", 429), seconds |-> 4]

\* C15 as stated: after a transient failure (429, timeout, connection
\* failure, 5xx) search gives up only when the retry ceiling is reached.
C15_EveryTransientRetried ==
    (spc = "returned" /\ slast \in Transient) => retry_count >= MAX_RETRIES

\* C15: after a status 429 or a timeout search issues the request again as
\* long as retry_count is below Config.MAX_RETRIES; after a 5xx or a
\* connection failure it returns [] at once, whatever retry_count is.
C15_OnlyRateLimitAndTimeoutRetried ==
    /\ slast \in Retried
         => /\ retry_count = requests
            /\ IF retry_count < MAX_RETRIES THEN spc = "requesting"
               ELSE spc = "returned" /\ sres = PyList(<<>>)
    /\ slast \in Transient \ Retried
         => /\ spc = "returned"
            /\ sres = PyList(<<>>)
            /\ retry_count = requests - 1

C15_Witness ==
    /\ spc = "returned"
    /\ slast = Failure("HTTPError", 500)
    /\ requests = 2
    /\ retry_count = 1
    /\ MAX_RETRIES = 3

\* C16: when every request fails with a status 429 or a timeout, search
\* gives up after exactly Config.MAX_RETRIES + 1 requests.
C16_MaxRetriesPlusOneRequests ==
    (spc = "returned" /\ slast \in Retried) => requests = MAX_RETRIES + 1

\* C17 as stated: search raises nothing, and returns [] after a failed
\* request of any kind and whenever cache.get or cache.set met a fault.
C17_EmptyListAfterAnyFault ==
    /\ spc # "raised"
    /\ (spc = "returned"
        /\ (slast \in Failures \/ scache.getfault \/ (slast = Ok /\ ~scache.stored)))
         => sres = PyList(<<>>)

\* C17: search raises nothing; it returns [] after a failed request of any
\* kind (retries used up, an error that is not retried, an unexpected error);
\* a fault of cache.get makes the search a miss and a fault of cache.set
\* leaves the books unwritten, and the books are returned all the same.
C17_NeverRaises ==
    /\ spc # "raised"
    /\ (spc = "returned" /\ slast \in Failures) => sres = PyList(<<>>)
    /\ (spc = "returned" /\ scache.getfault) => (requests >= 1 \/ MAX_RETRIES = 0)
    /\ (spc = "returned" /\ slast = Ok) => sres \in {books_of(r) : r \in Responses}

C17_Witness ==
    /\ spc = "returned"
    /\ scache.getfault
    /\ slast = Failure("ValueError", 0)
    /\ requests = 2
    /\ sres = PyList(<<>>)

\* C18: a search whose result was computed and written before, with no
\* clear since, returns that result without a request, an empty list too.
C18_SecondSearchIsAHit ==
    (spc # "idle" /\ scache.prior # NoResult /\ ~scache.getfault)
        => /\ spc = "returned"
           /\ requests = 0
           /\ sres = scache.prior

----------------------------------------------------------------------------
(* What the claim about the cache key speaks of *)

ArgsOf(b) == <<b.query, b.lang, b.max_results, b.start_index>>
HasColon(chars) == \E i \in 1..Len(chars) : chars[i] = ":"

\* C20 as stated: requests that send the same parameters have the same
\* key, and requests with different arguments have different keys.
C20_KeyTellsRequestsApart ==
    \A i, j \in 1..Len(built) :
        /\ built[i].params = built[j].params => built[i].key = built[j].key
        /\ ArgsOf(built[i]) # ArgsOf(built[j]) => built[i].key # built[j].key

\* C20: the key is a function of (query, lang, max_results, start_index):
\* the same arguments give the same key and the same parameters, and
\* different arguments give different keys when no lang holds a ":".
C20_KeyOfArguments ==
    \A i, j \in 1..Len(built) :
        /\ ArgsOf(built[i]) = ArgsOf(built[j])
             => built[i].key = built[j].key /\ built[i].params = built[j].params
        /\ (ArgsOf(built[i]) # ArgsOf(built[j])
            /\ ~HasColon(built[i].lang) /\ ~HasColon(built[j].lang))
             => built[i].key # built[j].key

C20_Witness ==
    /\ Len(built) = 2
    /\ built[1].query = <<"a", ":", "e", "n">> /\ built[1].lang = <<"e", "n">>
    /\ built[2].query = <<"a">> /\ built[2].lang = <<"e", "n">>
    /\ built[1].max_results = built[2].max_results
    /\ built[1].start_index = built[2].start_index
    /\ built[1].key = "search:a:en:en:20:0"
    /\ built[1].key # built[2].key

----------------------------------------------------------------------------
(* What the rate limiter claims speak of *)

Called == lret.id # ""
Mentions(msg, word) == \E i \in 1..Len(msg) : msg[i] = word

\* C21: is_allowed(id) allows the call exactly when fewer than max_requests
\* allowed calls of id lie in the last time_window seconds (later than
\* now - time_window); a rejection carries a message with "exceeded"; and no
\* window of time_window seconds holds more than max_requests allowed calls
\* of one identifier.
C21_AllowsBelowLimit ==
    /\ Called => /\ lret.allowed <=> lret.before < lcfg.max_requests
                 /\ ~lret.allowed => Mentions(lret.msg, "exceeded")
                 /\ lret.allowed => lret.msg = <<>>
    /\ \A i \in Ids, t \in 0..MaxClock :
          InWindow(lallowed[i], t, lcfg.time_window) <= lcfg.max_requests

C21_Witness ==
    /\ Called /\ ~lret.allowed
    /\ lcfg.max_requests = 2
    /\ lret.before = 2
    /\ lallowed[lret.id] = <<0, 1>>
    /\ lret.at = 1

IsSuffix(tail, whole) ==
    \E k \in 0..Len(whole) : tail = SubSeq(whole, k + 1, Len(whole))

\* C22: only allowed calls are recorded, and a call made more than
\* time_window seconds after the oldest recorded request of its identifier
\* is allowed, whatever was rejected in between.
C22_ResetsAfterWindow ==
    /\ \A i \in Ids : IsSuffix(self_requests[i], lallowed[i])
    /\ (Called /\ lret.oldest >= 0 /\ lret.at - lret.oldest > lcfg.time_window)
         => lret.allowed

C22_Witness ==
    /\ Called /\ lret.allowed
    /\ lcfg = [max_requests |-> 1, time_window |-> 1]
    /\ lret.oldest = 0 /\ lret.at = 2
    /\ lallowed[lret.id] = <<0, 2>>
    /\ self_requests[lret.id] = <<2>>

\* C23: a call of is_allowed for one identifier leaves the recorded requests
\* of every other identifier as they were, and its outcome follows from the
\* allowed calls of its own identifier alone.
C23_SeparateIdentifiers ==
    [][ltime' = ltime
         => /\ \A b \in Ids : b # lret'.id => self_requests'[b] = self_requests[b]
            /\ lret'.allowed
                 <=> InWindow(lallowed[lret'.id], ltime, lcfg.time_window)
                        < lcfg.max_requests]_vars

C23_Witness ==
    /\ lcfg.max_requests = 1
    /\ lret.id = "user2" /\ lret.allowed /\ lret.before = 0
    /\ self_requests["user1"] = <<ltime>>
    /\ self_requests["user2"] = <<ltime>>

\* C30: with the calls of is_allowed of several threads interleaved
\* statement by statement, no more than max_requests requests of the
\* identifier are recorded within the window, and every allowed request of
\* the window is recorded.
C30_BoundUnderThreads ==
    \A i \in Ids :
        /\ InWindow(self_requests[i], ltime, lcfg.time_window) <= lcfg.max_requests
        /\ InWindow(lallowed[i], ltime, lcfg.time_window)
              <= InWindow(self_requests[i], ltime, lcfg.time_window)

----------------------------------------------------------------------------
(* What the later claims about search speak of *)

\* a step of search: clearing the cache and the constructor leave all of
\* this alone
SearchRuns ==
    <<spc, sargs, MAX_RETRIES, retry_count, requests, sleeps, slast, sres, scache>>'
        # <<spc, sargs, MAX_RETRIES, retry_count, requests, sleeps, slast, sres, scache>>

\* C28: search writes to the cache on the success path only: a step of
\* search changes the table only when a request ended in status 200, and
\* then by the one row of the parsed books; after a request that ended in
\* an exception, and when search starts, the table is as it was.
C28_WritesOnSuccessOnly ==
    [][SearchRuns
         => /\ (slast' \in Failures /\ requests' = requests + 1) => rows' = rows
            /\ requests' = 0 => rows' = rows
            /\ rows' # rows
                 => /\ spc = "requesting" /\ slast' = Ok /\ spc' = "returned"
                    /\ rows' = InsertOrReplace(rows,
                                   Row(cache_key(sargs), dumps(sres'), now))]_vars

C28_Witness ==
    /\ spc = "returned"
    /\ slast \in Failures
    /\ requests = 2
    /\ sres = PyList(<<>>)
    /\ rows # {}
    /\ SelectValue(rows, cache_key(sargs)) = {}

\* what get makes of a row: the parsed text, None when it does not parse
Loaded(r) == IF loads(r.value) = JSONDecodeError THEN PyNone ELSE loads(r.value)

\* C27: get does not look at the age of an entry: a get whose SELECT ran
\* returns the parsed value of the row of its key though the row is older
\* than max_age_hours, and a search that finds such a row with a true value
\* returns it as a hit, without a request.
C27_GetIgnoresAge ==
    [][/\ (ret'.op = "get" /\ ret' # ret /\ ~ret'.fault)
            => \A r \in rows :
                  (r.key = ret'.key /\ Expired(r, now, max_age_hours))
                     => ret'.val = Loaded(r)
       /\ (SearchRuns /\ requests' = 0 /\ ~scache'.getfault)
            => \A r \in rows :
                  (/\ r.key = cache_key(sargs')
                   /\ Expired(r, now, max_age_hours)
                   /\ Truthy(Loaded(r)))
                     => spc' = "returned" /\ sres' = Loaded(r)]_vars

C27_Witness ==
    /\ spc = "returned" /\ requests = 0 /\ sres = BookList
    /\ scache.at = now
    /\ ret.op = "get" /\ ret.key = cache_key(sargs) /\ ret.val = BookList
    /\ \E r \in rows :
          /\ r.key = cache_key(sargs)
          /\ Expired(r, scache.at, max_age_hours)

----------------------------------------------------------------------------
(* What the claims about the recommendation engine speak of *)

\* C24: every method of the engine that calls the API tries again after a
\* failure of the first attempt: a call whose first create raised made at
\* least two calls of create.
C24_RetriesAfterFailure == ecall.failed => ecall.creates >= 2

\* C29: while an argument tuple is in the lru_cache, a call of
\* get_recommendations with it gives the value kept there without a
\* cache.get, a create or a search and leaves the table alone; a call that
\* runs the body and returns puts its result there, the empty list of a
\* failed create included; and no call changes the value kept for a tuple.
C29_BodyRunsOncePerTuple ==
    [][(ecall' # ecall /\ ecall'.method = "get_recommendations")
         => LET a == ecall'.args.of IN
            /\ IF InLru(lru, a)
               THEN /\ ecall'.hit
                    /\ ecall'.gets = 0 /\ ecall'.creates = 0 /\ ecall'.searches = 0
                    /\ ecall'.result = LruValue(lru, a)
                    /\ rows' = rows
               ELSE /\ ~ecall'.hit
                    /\ ecall'.gets = 1
                    /\ ecall'.outcome = "returned"
                         => InLru(lru', a) /\ LruValue(lru', a) = ecall'.result
            /\ \A b \in RecArgs :
                  (InLru(lru, b) /\ InLru(lru', b)) => LruValue(lru', b) = LruValue(lru, b)]_vars

C29_Witness ==
    /\ ecall.method = "get_recommendations"
    /\ ecall.hit
    /\ ecall.result = PyList(<<>>)
    /\ \E i \in 1..Len(lru) : lru[i].args = ecall.args.of /\ lru[i].failed
    /\ Len(lru) = LruSize
    /\ SelectValue(rows, generate_cache_key(recommendations_prompt(ecall.args.of))) = {}

----------------------------------------------------------------------------
(* What the claim about search_books speaks of *)

\* a query that is not empty, has at most 500 characters and holds none of
\* the dangerous patterns, whatever the case of its letters
PassesValidation(query) ==
    /\ query # <<>>
    /\ Len(query) <= 500
    /\ \A pattern \in dangerous_patterns :
          \A i \in 1..Len(query) :
              i + Len(pattern) - 1 <= Len(query)
                 => LowerChars(SubSeq(query, i, i + Len(pattern) - 1)) # pattern

\* the quota left to the identifier of the searches before a call
QuotaLeft ==
    InWindow(lallowed[SharedId], ltime, lcfg.time_window) < lcfg.max_requests

\* C26: with the validation and the rate limiting enabled, search_books
\* calls the books API only for a query that passes the validation and
\* that the rate limiter allows; a query that fails the validation gives []
\* with no call of the API and leaves the rate limiter as it was; a query
\* that is rate-limited gives [] with no call of the API.
C26_ApiBehindValidationAndLimit ==
    [][(ltime' = ltime /\ svc'.validation /\ svc'.rate_limit)
         => /\ svc'.api # <<>> => (PassesValidation(svc'.query) /\ QuotaLeft)
            /\ ~PassesValidation(svc'.query)
                 => /\ svc'.api = <<>> /\ svc'.result = PyList(<<>>)
                    /\ ~svc'.asked
                    /\ UNCHANGED <<self_requests, lallowed, lret, rows>>
            /\ (PassesValidation(svc'.query) /\ ~QuotaLeft)
                 => /\ svc'.api = <<>> /\ svc'.result = PyList(<<>>)
                    /\ svc'.asked
                    /\ rows' = rows]_vars

C26_Witness ==
    /\ svc.validation /\ svc.rate_limit
    /\ svc.query = <<"<", "S", "c", "r", "i", "p", "t", ">">>
    /\ svc.api = <<>> /\ svc.result = PyList(<<>>) /\ ~svc.asked
    /\ self_requests[SharedId] = <<ltime>>
    /\ lret.allowed

----------------------------------------------------------------------------
(* What the claim on callers sharing the cache speaks of *)

\* a set of v ran its INSERT and stands before its commit
InProgress(v) ==
    \E t \in Callers : cthreads[t].pc = "commit" /\ cthreads[t].v = v

\* C25, as stated: with the statements of the callers interleaved, the key
\* has at most one row, the row holds the value of a set that has returned,
\* and a get returns None or a value that a caller wrote.
C25_ValueOfACompletedSet ==
    /\ Cardinality(SelectValue(rows, ConcKey)) <= 1
    /\ \A r \in rows :
          \E v \in ConcValues : cwrites[v].returned /\ r.value = dumps(v)
    /\ cgot # PyNone => \E v \in ConcValues : cwrites[v].inserted /\ cgot = v

\* C25, amended: the key has at most one row; the row holds the JSON text of
\* a value whose INSERT ran, in a set that has returned or stands before its
\* commit; a get returns None or the JSON form of a value whose INSERT ran;
\* and once every caller is back the row is that of a set that returned.
C25_ValueOfAnInsertedSet ==
    /\ Cardinality(SelectValue(rows, ConcKey)) <= 1
    /\ \A r \in rows :
          \E v \in ConcValues :
              /\ r.value = dumps(v)
              /\ cwrites[v].inserted
              /\ cwrites[v].returned \/ InProgress(v)
    /\ cgot # PyNone
          => \E v \in ConcValues : cwrites[v].inserted /\ cgot = JsonForm(v)
    /\ (\A t \in Callers : cthreads[t].pc = "idle")
          => \A r \in rows :
                \E v \in ConcValues : cwrites[v].returned /\ r.value = dumps(v)

\* two sets on the key stand before their commits, the row is the one of the
\* later INSERT, and a get has returned its value
C25_Witness ==
    /\ cthreads["t1"].pc = "commit"
    /\ cthreads["t2"].pc = "commit"
    /\ cthreads["t1"].v # cthreads["t2"].v
    /\ cthreads["t1"].ts < cthreads["t2"].ts
    /\ rows = {Row(ConcKey, dumps(cthreads["t2"].v), cthreads["t2"].ts)}
    /\ cgot = JsonForm(cthreads["t2"].v)

====
